---- MODULE Spec2Model ----
(***************************************************************************)
(* LocalWhisper: the recording/processing orchestrator (LocalWhisperApp)   *)
(* together with the parts of AudioEngine, the transcription worker thread *)
(* and the UI/history/injection sinks that its handlers drive.             *)
(*                                                                         *)
(* HotkeyCombo (parsing and printing a hotkey string) and HotkeyManager    *)
(* (the key listener) have their own specifications, ComboSpec and         *)
(* ListenerSpec, over their own variables.  So have the components called  *)
(* through their public interface: AudioEngine (EngineSpec),               *)
(* TranscriptionEngine one call at a time (ModelSpec) and from several     *)
(* threads (WorkersSpec), HistoryManager (HistorySpec) and Config          *)
(* (ConfigSpec).  FairSpec is Spec with the event loop delivering every    *)
(* queued signal.                                                          *)
(*                                                                         *)
(* Threads: the Qt main thread runs the slots (queued signals are taken    *)
(* from event_queue in FIFO order, signals emitted on the main thread run  *)
(* their slot at once); the keyboard-hook thread runs _toggle_recording    *)
(* and only emits; each transcribe thread emits exactly one signal; the    *)
(* audio thread appends chunks to the engine's buffer.                     *)
(***************************************************************************)
EXTENDS Integers, Sequences, FiniteSets, TLC

\* ---------------------------------------------------------------- bounds
MaxToggles == 4     \* toggle events (hook thread + tray) in one behaviour
MaxChunks == 2      \* chunks the audio callback delivers in one recording
MaxParts == 3       \* "+"-separated parts of a hotkey string handed to the parser
MaxEvents == 5      \* key events and set_hotkey calls in one behaviour of the listener
MaxClock == 400     \* the listener's clock stops here (ms)
MaxCalls == 4       \* direct calls made on an AudioEngine in one behaviour
MaxLoads == 3       \* load_model/unload_model calls on a TranscriptionEngine in one behaviour
MaxOps == 4         \* calls on a HistoryManager in one behaviour

\* ------------------------------------------------------ program constants
MinSamples == 1600          \* app.py:208  len(audio) < 1600
HistoryRate == 16000        \* app.py:250  duration = len(...) / 16000
SampleRate == 16000         \* config.py:57 AudioSettings.sample_rate
MaxSeconds == 30            \* audio_engine.py:80 deque(maxlen=int(30 * rate))
ChunkSizes == {1599, 1600}  \* AudioSettings.chunk_size as configured (default 1600)

\* Raw text the model's segments join to, before TranscriptionEngine strips it.
RawTexts == { <<>>, <<" ">>, <<" ", "hi">>, <<"hi", " ">> }
\* Messages of the exceptions the inference call can raise.
InferenceErrors == { <<"decode failure">> }

VARIABLES
    is_recording,        \* LocalWhisperApp._is_recording
    is_processing,       \* LocalWhisperApp._is_processing
    event_queue,         \* queued signals waiting for the main thread
    hook_pc,             \* position of the hook thread inside _toggle_recording
    toggles,             \* toggle events submitted so far (bounded)
    threads,             \* transcribe threads in flight (the audio each holds)
    engine_is_recording, \* AudioEngine._is_recording
    stream,              \* AudioEngine._stream: "none", "active", "opened", "failed"
    audio_buffer,        \* AudioEngine._audio_buffer: chunks [sess, n]
    session,             \* number of captures the engine has started
    chunk_size,          \* AudioSettings.chunk_size (frames per callback)
    tray_state,          \* TrayIcon state set by set_state
    tray_error,          \* message of the last TrayIcon.show_error, <<>> if none
    tray_timers,         \* pending QTimer.singleShot(3000, set_state(IDLE))
    overlay_shown,       \* WaveformOverlay visible
    overlay_state,       \* WaveformWidget state
    fading,              \* fade-out animation running
    hide_timers,         \* pending delayed WaveformOverlay._do_hide
    inject_timers,       \* pending QTimer.singleShot(150, inject_text(text))
    injected,            \* texts TextInjector.inject_text received
    history,             \* arguments of the HistoryManager.add_entry calls
    last_audio,          \* length of the last segment stop_recording returned, -1 if none
    toggles_at_error,    \* value of toggles when the last transcription error was handled, -1 if none
    faults,              \* exceptions that have escaped a slot
    alive                \* the process has not been aborted

VARIABLES
    hotkey_str,          \* the string handed to HotkeyCombo.from_string
    platform,            \* platform.system()
    combo_pc,            \* how far the parse / print / parse-again sequence has got
    parsed,              \* what from_string(hotkey_str) gave
    printed,             \* parsed.to_string()
    reparsed             \* what from_string(printed) gave

VARIABLES
    hotkey,              \* HotkeyManager._hotkey
    listener,            \* HotkeyManager._listener: "none" or "hooked"
    is_running,          \* HotkeyManager._is_running
    pressed_modifiers,   \* HotkeyManager._pressed_modifiers
    hotkey_active,       \* HotkeyManager._hotkey_active
    activation_time,     \* HotkeyManager._activation_time, in ms
    on_press_calls,      \* calls of the on_press callback so far
    on_release_calls,    \* calls of the on_release callback so far
    last_press_time,     \* clock at the last on_press call, -1 if none
    now,                 \* time.time(), in ms
    held,                \* keys physically down
    ev,                  \* the last key event or call the listener handled
    nevents              \* key events and set_hotkey calls so far (bounded)

\* Direct calls on an AudioEngine
VARIABLES
    appended,            \* chunks the callback delivered since the last start that took effect
    returned,            \* what the last stop_recording() call returned
    eng_ev,              \* the last thing that happened to the engine called directly
    eng_calls            \* direct calls so far (bounded)

\* A TranscriptionEngine and its calls, one at a time
VARIABLES
    settings,            \* TranscriptionSettings: device, compute_type, language, model_name
    env,                 \* what torch reports: importable, cuda available, memory query, MiB
    model_pc,            \* "new" before __init__ ran, then "ready"
    device,              \* self._device
    compute_type,        \* self._compute_type
    model,               \* self._model
    model_name,          \* self._model_name
    is_loaded,           \* self._is_loaded
    constructed,         \* WhisperModel objects constructed so far
    peak,                \* most WhisperModel objects held at the same time so far
    model_ev,            \* the last call made on the engine
    loads                \* load_model/unload_model calls so far (bounded)

\* Threads calling into one TranscriptionEngine
VARIABLES
    wpc,                 \* where each thread stands in load_model / transcribe
    wmodel               \* the self._model each thread's inference runs on

\* A HistoryManager and its database
VARIABLES
    enabled,             \* settings.enabled
    rows,                \* the rows of table history: id, text, timestamp
    last_id,             \* the largest id AUTOINCREMENT has handed out
    db_now,              \* datetime.now()
    h_res,               \* the last call on the manager and what it returned
    h_ops                \* calls so far (bounded)

\* A Config object and its file
VARIABLES
    cfg_file,            \* what is stored at config_path
    cfg,                 \* the Config the caller holds, once load returned one
    cfg_saved,           \* the settings the last save() wrote
    cfg_res,             \* the last call and what it returned or raised
    cfg_ops              \* calls so far (bounded)

appvars == <<is_recording, is_processing>>
uivars == <<tray_state, tray_error, tray_timers, overlay_shown, overlay_state, fading, hide_timers>>
sinkvars == <<inject_timers, injected, history>>
engvars == <<engine_is_recording, stream, audio_buffer, session, appended>>
vars == <<is_recording, is_processing, event_queue, hook_pc, toggles, threads,
          engine_is_recording, stream, audio_buffer, session, chunk_size,
          tray_state, tray_error, tray_timers, overlay_shown, overlay_state,
          fading, hide_timers, inject_timers, injected, history, last_audio,
          toggles_at_error, faults, alive,
          hotkey_str, platform, combo_pc, parsed, printed, reparsed,
          hotkey, listener, is_running, pressed_modifiers, hotkey_active,
          activation_time, on_press_calls, on_release_calls, last_press_time,
          now, held, ev, nevents,
          appended, returned, eng_ev, eng_calls,
          settings, env, model_pc, device, compute_type, model, model_name,
          is_loaded, constructed, peak, model_ev, loads,
          wpc, wmodel,
          enabled, rows, last_id, db_now, h_res, h_ops,
          cfg_file, cfg, cfg_saved, cfg_res, cfg_ops>>
\* the orchestrator's and the engine's state
orchvars == <<is_recording, is_processing, event_queue, hook_pc, toggles, threads,
              engine_is_recording, stream, audio_buffer, session, appended,
              chunk_size, tray_state, tray_error, tray_timers, overlay_shown, overlay_state,
              fading, hide_timers, inject_timers, injected, history, last_audio,
              toggles_at_error, faults, alive>>
combovars == <<hotkey_str, platform, combo_pc, parsed, printed, reparsed>>
hkvars == <<hotkey, listener, is_running, pressed_modifiers, hotkey_active,
            activation_time, on_press_calls, on_release_calls, last_press_time,
            now, held, ev, nevents>>
\* the calls made on the engine and what the last one gave back
callvars == <<returned, eng_ev, eng_calls>>
\* the orchestrator's state without the engine's
hostvars == <<is_recording, is_processing, event_queue, hook_pc, toggles, threads,
              chunk_size, tray_state, tray_error, tray_timers, overlay_shown,
              overlay_state, fading, hide_timers, inject_timers, injected,
              history, last_audio, toggles_at_error, faults, alive>>
\* the transcription engine, its settings and what it runs on
modelvars == <<settings, env, model_pc, device, compute_type, model, model_name,
               is_loaded, constructed, peak, model_ev, loads>>
\* the threads inside the transcription engine
workvars == <<wpc, wmodel>>
\* the history manager and its database
histvars == <<enabled, rows, last_id, db_now, h_res, h_ops>>
cfgvars == <<cfg_file, cfg, cfg_saved, cfg_res, cfg_ops>>
\* what the actions of each part leave alone
outside_app == <<combovars, hkvars, callvars, modelvars, workvars, histvars, cfgvars>>
outside_combo == <<orchvars, hkvars, callvars, modelvars, workvars, histvars, cfgvars>>
outside_listener == <<orchvars, combovars, callvars, modelvars, workvars, histvars, cfgvars>>
outside_engine == <<hostvars, combovars, hkvars, modelvars, workvars, histvars, cfgvars>>
outside_model == <<orchvars, combovars, hkvars, callvars, workvars, histvars, cfgvars>>
outside_workers == <<orchvars, combovars, hkvars, callvars, histvars, cfgvars,
                     settings, env, model_pc, device, compute_type, model_ev, loads>>
outside_history == <<orchvars, combovars, hkvars, callvars, modelvars, workvars, cfgvars>>
outside_config == <<orchvars, combovars, hkvars, callvars, modelvars, workvars, histvars>>

\* ---------------------------------------------------------------- helpers
RECURSIVE BufLen(_)
\* len() of a sample sequence held as chunks
BufLen(buf) == IF buf = <<>> THEN 0 ELSE Head(buf).n + BufLen(Tail(buf))

\* deque(maxlen=int(30 * sample_rate))
Capacity == MaxSeconds * SampleRate

RECURSIVE DropLeft(_, _)
\* a bounded deque discards from the left what exceeds maxlen
DropLeft(buf, k) ==
    IF k <= 0 \/ buf = <<>> THEN buf
    ELSE IF Head(buf).n <= k THEN DropLeft(Tail(buf), k - Head(buf).n)
    ELSE <<[Head(buf) EXCEPT !.n = @ - k]>> \o Tail(buf)

\* the unbounded-list slip: extend() on a buffer without maxlen
Extend_unbounded(buf, chunk) == Append(buf, chunk)

\* self._audio_buffer.extend(audio_data)
Extend(buf, chunk) ==
    LET all == Append(buf, chunk)
    IN  DropLeft(all, BufLen(all) - Capacity)

RECURSIVE LStrip(_)
LStrip(s) == IF s # <<>> /\ Head(s) = " " THEN LStrip(Tail(s)) ELSE s

RECURSIVE RStrip(_)
RStrip(s) ==
    IF s # <<>> /\ s[Len(s)] = " " THEN RStrip(SubSeq(s, 1, Len(s) - 1)) ELSE s

\* str.strip()
Strip(s) == RStrip(LStrip(s))

\* the session a segment was captured in (0 for an empty segment)
SessOf(audio) == IF audio = <<>> THEN 0 ELSE Head(audio).sess

Signal(name, text, audio) == [sig |-> name, text |-> text, audio |-> audio]

\* ------------------------------------------------------------ HotkeyCombo
\* A string is the tuple of its characters.
S_alt == <<"a", "l", "t">>
S_ctrl == <<"c", "t", "r", "l">>
S_control == <<"c", "o", "n", "t", "r", "o", "l">>
S_shift == <<"s", "h", "i", "f", "t">>
S_cmd == <<"c", "m", "d">>
S_win == <<"w", "i", "n">>
S_meta == <<"m", "e", "t", "a">>

\* the characters of the inputs, in code point order
CodeOrder ==
    <<" ", "+", "A", "D", "L", "R", "S", "T",
      "a", "c", "d", "e", "f", "h", "i", "l", "m", "n", "o", "r", "s", "t", "w">>

\* the place of character c in that order
Ord(c) == CHOOSE i \in DOMAIN CodeOrder : CodeOrder[i] = c

\* str.lower(), on one character
Lower(c) ==
    CASE c = "A" -> "a" [] c = "D" -> "d" [] c = "L" -> "l"
      [] c = "R" -> "r" [] c = "S" -> "s" [] c = "T" -> "t"
      [] OTHER -> c

\* str.lower()
LowerStr(s) == [i \in DOMAIN s |-> Lower(s[i])]

\* str.replace(" ", "")
RemoveSpaces(s) == SelectSeq(s, LAMBDA c : c # " ")

RECURSIVE Split(_)
\* str.split("+")
Split(s) ==
    IF \A i \in DOMAIN s : s[i] # "+" THEN <<s>>
    ELSE LET i == CHOOSE k \in DOMAIN s : s[k] = "+" /\ \A j \in 1..(k - 1) : s[j] # "+"
         IN  <<SubSeq(s, 1, i - 1)>> \o Split(SubSeq(s, i + 1, Len(s)))

RECURSIVE Join(_)
\* "+".join(parts)
Join(parts) ==
    IF parts = <<>> THEN <<>>
    ELSE IF Len(parts) = 1 THEN parts[1]
    ELSE parts[1] \o <<"+">> \o Join(Tail(parts))

RECURSIVE LexLess(_, _)
\* a < b on strings
LexLess(a, b) ==
    IF b = <<>> THEN FALSE
    ELSE IF a = <<>> THEN TRUE
    ELSE IF Head(a) # Head(b) THEN Ord(Head(a)) < Ord(Head(b))
    ELSE LexLess(Tail(a), Tail(b))

RECURSIVE Sorted(_)
\* sorted(S) of a set of strings
Sorted(S) ==
    IF S = {} THEN <<>>
    ELSE LET m == CHOOSE x \in S : \A y \in S \ {x} : LexLess(x, y)
         IN  <<m>> \o Sorted(S \ {m})

\* the sequence s back to front
Reverse(s) == [i \in DOMAIN s |-> s[Len(s) + 1 - i]]

Platforms == {"Darwin", "Windows"}

modifier_names == {S_alt, S_ctrl, S_control, S_shift, S_cmd, S_win, S_meta}

\* "Normalize modifier names" in from_string
NormalizeModifier(part, plat) ==
    IF part = S_control THEN S_ctrl
    ELSE IF part \in {S_cmd, S_win, S_meta}
         THEN (IF plat = "Darwin" THEN S_cmd ELSE S_win)
         ELSE part

RECURSIVE ScanParts(_, _, _)
\* the `for part in parts` loop of from_string; acc holds modifiers and key
\* (has_key: key is not None)
ScanParts(parts, plat, acc) ==
    IF parts = <<>> THEN acc
    ELSE LET part == Head(parts)
         IN  ScanParts(Tail(parts), plat,
                 IF part \in modifier_names
                 THEN [acc EXCEPT !.modifiers = @ \cup {NormalizeModifier(part, plat)}]
                 ELSE [acc EXCEPT !.has_key = TRUE, !.key = part])

\* what stands for "no combo": from_string raised ValueError
NoCombo == [ok |-> FALSE, modifiers |-> {}, key |-> <<>>]

\* HotkeyCombo.from_string
from_string(str, plat) ==
    LET parts == Split(RemoveSpaces(LowerStr(str)))
        acc == ScanParts(parts, plat, [modifiers |-> {}, has_key |-> FALSE, key |-> <<>>])
    IN  IF ~acc.has_key THEN NoCombo
        ELSE [ok |-> TRUE, modifiers |-> acc.modifiers, key |-> acc.key]

\* the wrong-order slip: the modifiers are listed in descending order
to_string_reversed(c) == Join(Reverse(Sorted(c.modifiers)) \o <<c.key>>)

\* HotkeyCombo.to_string
to_string(c) == Join(Sorted(c.modifiers) \o <<c.key>>)

\* the parts the input strings are built from: modifier names in several
\* spellings, keys, an empty part and a misspelt modifier
RawTokens ==
    { S_alt, <<"A", " ", "L", "T">>, S_ctrl, S_control, S_shift, S_cmd, S_win,
      <<"s">>, <<"R">>, <<>>, <<"s", "h", "f", "i", "t">> }

\* the input strings: up to MaxParts parts joined by "+"
ComboStrings == { Join(p) : p \in UNION { [1..k -> RawTokens] : k \in 1..MaxParts } }

\* ---------------------------------------------------------- HotkeyManager
MinHoldMs == 150            \* hotkey_manager.py:127  _min_hold_time = 0.15
\* what the clock advances by between two events (ms)
ClockSteps == {50, 100}

K_alt_l == <<"a", "l", "t", "_", "l">>
K_ctrl_l == <<"c", "t", "r", "l", "_", "l">>
K_shift == <<"s", "h", "i", "f", "t">>
K_cmd == <<"c", "m", "d">>

\* the keys of the keyboard that are pressed and released
PhysKeys == {"alt_l", "ctrl_l", "s", "d"}

\* the pynput key object the listener gets for key k while the keys h are
\* down: a Key member has a name; a KeyCode has a vk and a char, and the char
\* is a control code while Ctrl is down
KeyObject(k, h) ==
    CASE k = "alt_l" -> [name |-> K_alt_l, vk |-> 164, char |-> <<>>]
      [] k = "ctrl_l" -> [name |-> K_ctrl_l, vk |-> 162, char |-> <<>>]
      [] k = "s" -> [name |-> <<>>, vk |-> 83,
                     char |-> IF "ctrl_l" \in h THEN <<"^S">> ELSE <<"s">>]
      [] OTHER -> [name |-> <<>>, vk |-> 68,
                   char |-> IF "ctrl_l" \in h THEN <<"^D">> ELSE <<"d">>]

\* chr(vk) for the letter keys
Chr(vk) == IF vk = 83 THEN "S" ELSE IF vk = 68 THEN "D" ELSE "A"

\* str.isprintable() on one character
IsPrintable(c) == c \notin {"^S", "^D"}

\* HotkeyManager._get_modifier_name: <<>> stands for None
get_modifier_name(key, plat) ==
    IF key.name \in {S_alt, K_alt_l, <<"a", "l", "t", "_", "r">>} THEN S_alt
    ELSE IF key.name \in {S_ctrl, K_ctrl_l, <<"c", "t", "r", "l", "_", "r">>} THEN S_ctrl
    ELSE IF key.name \in {K_shift, <<"s", "h", "i", "f", "t", "_", "l">>,
                          <<"s", "h", "i", "f", "t", "_", "r">>} THEN S_shift
    ELSE IF key.name \in {K_cmd, <<"c", "m", "d", "_", "l">>, <<"c", "m", "d", "_", "r">>}
         THEN (IF plat = "Darwin" THEN S_cmd ELSE S_win)
    ELSE <<>>

\* HotkeyCombo.matches_pynput_key
matches_pynput_key(c, key) ==
    IF key.name # <<>> THEN LowerStr(key.name) = LowerStr(c.key)
    ELSE IF key.vk # 0 /\ 65 <= key.vk /\ key.vk <= 90
         THEN <<Lower(Chr(key.vk))>> = LowerStr(c.key)
    ELSE IF key.vk # 0 /\ 48 <= key.vk /\ key.vk <= 57
         THEN <<Chr(key.vk)>> = c.key
    ELSE IF Len(key.char) = 1 /\ IsPrintable(key.char[1])
         THEN <<Lower(key.char[1])>> = LowerStr(c.key)
    ELSE FALSE

\* the subset slip: extra modifiers held do not prevent the activation
ModifiersMatch_subset(pressed, wanted) == wanted \subseteq pressed

\* `self._pressed_modifiers == self._hotkey.modifiers`
ModifiersMatch(pressed, wanted) == pressed = wanted

\* the off-by-one slip: a release exactly at the minimum hold time is ignored
HeldTooShort_inclusive(elapsed) == elapsed <= MinHoldMs

\* `elapsed < self._min_hold_time`
HeldTooShort(elapsed) == elapsed < MinHoldMs

\* what a callback does: on_press / on_release return or raise; the manager
\* prints the exception and goes on (try / except Exception around the call)
CallbackOutcomes == {"returns", "raises"}

\* the missing-guard slip: a key repeat while active calls on_press again
handle_press_repeats(key) ==
    LET modifier == get_modifier_name(key, platform)
    IN  IF modifier # <<>>
        THEN /\ pressed_modifiers' = pressed_modifiers \cup {modifier}
             /\ UNCHANGED <<hotkey_active, activation_time, on_press_calls,
                            on_release_calls, last_press_time>>
        ELSE IF /\ matches_pynput_key(hotkey, key)
                /\ ModifiersMatch(pressed_modifiers, hotkey.modifiers)
             THEN /\ hotkey_active' = TRUE
                  /\ activation_time' = now
                  /\ on_press_calls' = on_press_calls + 1
                  /\ last_press_time' = now
                  /\ UNCHANGED <<pressed_modifiers, on_release_calls>>
             ELSE UNCHANGED <<pressed_modifiers, hotkey_active, activation_time,
                              on_press_calls, on_release_calls, last_press_time>>

\* HotkeyManager._handle_press for the key object key
handle_press(key) ==
    LET modifier == get_modifier_name(key, platform)
    IN  IF modifier # <<>>
        THEN /\ pressed_modifiers' = pressed_modifiers \cup {modifier}
             /\ UNCHANGED <<hotkey_active, activation_time, on_press_calls,
                            on_release_calls, last_press_time>>
        ELSE IF /\ matches_pynput_key(hotkey, key)
                /\ ModifiersMatch(pressed_modifiers, hotkey.modifiers)
                /\ ~hotkey_active
             THEN /\ hotkey_active' = TRUE
                  /\ activation_time' = now
                  /\ on_press_calls' = on_press_calls + 1
                  /\ last_press_time' = now
                  /\ UNCHANGED <<pressed_modifiers, on_release_calls>>
             ELSE UNCHANGED <<pressed_modifiers, hotkey_active, activation_time,
                              on_press_calls, on_release_calls, last_press_time>>

\* HotkeyManager._trigger_release
trigger_release ==
    IF hotkey_active /\ ~HeldTooShort(now - activation_time)
    THEN /\ hotkey_active' = FALSE
         /\ activation_time' = 0
         /\ on_release_calls' = on_release_calls + 1
    ELSE UNCHANGED <<hotkey_active, activation_time, on_release_calls>>

\* the old-behaviour slip: releasing a modifier ends the activation
handle_release_on_modifier(key) ==
    LET modifier == get_modifier_name(key, platform)
    IN  /\ UNCHANGED <<on_press_calls, last_press_time>>
        /\ pressed_modifiers' = pressed_modifiers \ {modifier}
        /\ IF (modifier # <<>> \/ matches_pynput_key(hotkey, key)) /\ hotkey_active
           THEN trigger_release
           ELSE UNCHANGED <<hotkey_active, activation_time, on_release_calls>>

\* HotkeyManager._handle_release for the key object key
handle_release(key) ==
    LET modifier == get_modifier_name(key, platform)
    IN  /\ UNCHANGED <<on_press_calls, last_press_time>>
        /\ IF modifier # <<>>
           THEN /\ pressed_modifiers' = pressed_modifiers \ {modifier}
                /\ UNCHANGED <<hotkey_active, activation_time, on_release_calls>>
           ELSE /\ UNCHANGED pressed_modifiers
                /\ IF matches_pynput_key(hotkey, key) /\ hotkey_active
                   THEN trigger_release
                   ELSE UNCHANGED <<hotkey_active, activation_time, on_release_calls>>

\* the fields of the manager that start() and stop() write
Manager ==
    [listener |-> listener, is_running |-> is_running,
     hotkey_active |-> hotkey_active, pressed_modifiers |-> pressed_modifiers]

\* HotkeyManager.start, on the fields m
start(m) ==
    IF m.is_running THEN m
    ELSE [m EXCEPT !.pressed_modifiers = {}, !.hotkey_active = FALSE,
                   !.listener = "hooked", !.is_running = TRUE]

\* HotkeyManager.stop, on the fields m
stop(m) ==
    IF ~m.is_running THEN m
    ELSE [m EXCEPT !.listener = "none", !.is_running = FALSE,
                   !.hotkey_active = FALSE, !.pressed_modifiers = {}]

\* the fields m written back
SetManager(m) ==
    /\ listener' = m.listener
    /\ is_running' = m.is_running
    /\ hotkey_active' = m.hotkey_active
    /\ pressed_modifiers' = m.pressed_modifiers

\* HotkeyManager.set_hotkey: stop() if running, parse, start() if it was
\* running; when from_string raises, the call ends after the stop()
set_hotkey(str) ==
    LET was_running == is_running
        stopped == IF was_running THEN stop(Manager) ELSE Manager
        c == from_string(str, platform)
    IN  IF ~c.ok
        THEN /\ hotkey' = hotkey
             /\ SetManager(stopped)
        ELSE /\ hotkey' = c
             /\ SetManager(IF was_running THEN start(stopped) ELSE stopped)

\* the hotkey strings set_hotkey is called with: "alt+s", "ctrl+d" and the
\* modifier-only "alt+ctrl"
HotkeyStrings ==
    { Join(<<S_alt, <<"s">>>>), Join(<<S_ctrl, <<"d">>>>), Join(<<S_alt, S_ctrl>>) }

\* HotkeySettings.activation_key: the default "ctrl+shift"
activation_key == Join(<<S_ctrl, S_shift>>)

\* no event handled yet
NoEvent == [kind |-> "none", key |-> "", raised |-> FALSE]

\* no parse requested
ComboUnused ==
    /\ hotkey_str = <<>>
    /\ platform = "Windows"
    /\ combo_pc = "unused"
    /\ parsed = NoCombo
    /\ printed = <<>>
    /\ reparsed = NoCombo

\* HotkeyManager.__init__ with the default hotkey "alt+s" and both callbacks
ListenerConstructed ==
    /\ hotkey = from_string(Join(<<S_alt, <<"s">>>>), platform)
    /\ listener = "none"
    /\ is_running = FALSE
    /\ pressed_modifiers = {}
    /\ hotkey_active = FALSE
    /\ activation_time = 0
    /\ on_press_calls = 0
    /\ on_release_calls = 0
    /\ last_press_time = -1
    /\ now = 0
    /\ held = {}
    /\ ev = NoEvent
    /\ nevents = 0

\* ---------------------------------------------------- TranscriptionEngine
\* gpu_mem >= 8 (GiB)
MinHalfPrecisionGiB == 8
\* total_memory / (1024**3): the model counts memory in MiB, 1024 to the GiB
MiBPerGiB == 1024

Devices == {"auto", "cpu", "cuda"}
ComputeTypes == {"auto", "int8", "float16"}
Languages == {"en", "de"}
GpuMiB == {4096, 8191, 8192, 16384}
Settings ==
    [device : Devices, compute_type : ComputeTypes, language : Languages,
     model_name : {"turbo"}]
\* torch importable, torch.cuda.is_available(), get_device_properties works, MiB
Environments == [torch : BOOLEAN, cuda : BOOLEAN, query_ok : BOOLEAN, mib : GpuMiB]

\* TranscriptionSettings()
DefaultSettings ==
    [device |-> "auto", compute_type |-> "auto", language |-> "en", model_name |-> "turbo"]
NoAccelerator == [torch |-> FALSE, cuda |-> FALSE, query_ok |-> FALSE, mib |-> 4096]

\* TranscriptionEngine._detect_device
detect_device(e) == IF e.torch /\ e.cuda THEN "cuda" ELSE "cpu"

\* the off-by-one slip: more than 8 GiB asked for float16
detect_compute_type_strict(e, dev) ==
    IF dev = "cuda" /\ e.torch /\ e.cuda /\ e.query_ok
                   /\ e.mib > MinHalfPrecisionGiB * MiBPerGiB
    THEN "float16"
    ELSE "int8"

\* TranscriptionEngine._detect_compute_type; the query raises (and int8 is
\* returned) when torch is missing, no CUDA device exists or the call fails
detect_compute_type(e, dev) ==
    IF dev = "cuda"
    THEN IF e.torch /\ e.cuda /\ e.query_ok
         THEN IF e.mib >= MinHalfPrecisionGiB * MiBPerGiB THEN "float16" ELSE "int8"
         ELSE "int8"
    ELSE "int8"

\* TranscriptionEngine._detect_compute_config
detect_compute_config(st, e) ==
    LET dev == IF st.device # "auto" THEN st.device ELSE detect_device(e)
        ct == IF st.compute_type # "auto" THEN st.compute_type
              ELSE detect_compute_type(e, dev)
    IN  <<dev, ct>>

\* self._model = None
NoModel == [id |-> 0, actual |-> <<>>, device |-> "", compute_type |-> ""]

EnglishOnlySizes == {"tiny", "base", "small", "medium"}

\* actual_model: f"{name}.en" for the sizes that have an English-only model
ActualModel(name) ==
    IF settings.language = "en" /\ name \in EnglishOnlySizes
    THEN <<name, ".en">>
    ELSE <<name>>

\* WhisperModel(actual_model, device=self._device, compute_type=self._compute_type, ...)
WhisperModel(name) ==
    [id |-> constructed + 1, actual |-> ActualModel(name),
     device |-> device, compute_type |-> compute_type]

\* the engine's model fields
EngineState == [model |-> model, model_name |-> model_name, is_loaded |-> is_loaded]
SetEngine(m) ==
    /\ model' = m.model
    /\ model_name' = m.model_name
    /\ is_loaded' = m.is_loaded

\* TranscriptionEngine.unload_model
unload_model(m) ==
    IF m.model # NoModel
    THEN [model |-> NoModel, model_name |-> "", is_loaded |-> FALSE]
    ELSE m

\* name = model_name or self.settings.model_name
RequestedName(request) == IF request = "" THEN settings.model_name ELSE request

\* WhisperModel objects held while a new one is constructed next to m
HeldWith(m) == 1 + (IF m.model # NoModel THEN 1 ELSE 0)

\* the forgotten-unload slip: the new model is built next to the previous one
load_model_keeps_previous(request, outcome) ==
    LET name == RequestedName(request)
    IN  IF is_loaded /\ model_name = name
        THEN UNCHANGED <<model, model_name, is_loaded, constructed, peak>>
        ELSE IF outcome = "ok"
             THEN /\ SetEngine([model |-> WhisperModel(name), model_name |-> name,
                                is_loaded |-> TRUE])
                  /\ constructed' = constructed + 1
                  /\ peak' = IF HeldWith(EngineState) > peak
                             THEN HeldWith(EngineState) ELSE peak
             ELSE UNCHANGED <<model, model_name, is_loaded, constructed, peak>>

\* TranscriptionEngine.load_model; outcome says whether WhisperModel(...) raises
load_model(request, outcome) ==
    LET name == RequestedName(request)
        m == IF is_loaded THEN unload_model(EngineState) ELSE EngineState
    IN  IF is_loaded /\ model_name = name
        THEN UNCHANGED <<model, model_name, is_loaded, constructed, peak>>
        ELSE IF outcome = "ok"
             THEN /\ SetEngine([model |-> WhisperModel(name), model_name |-> name,
                                is_loaded |-> TRUE])
                  /\ constructed' = constructed + 1
                  /\ peak' = IF HeldWith(m) > peak THEN HeldWith(m) ELSE peak
             ELSE /\ SetEngine(m)
                  /\ UNCHANGED <<constructed, peak>>

\* model names asked for; "" is load_model() without a name
Requests == {"", "base", "turbo"}
LoadOutcomes == {"ok", "raises"}

\* TranscriptionEngine.__init__
ModelConstruct ==
    /\ model_pc = "new"
    /\ model_pc' = "ready"
    /\ device' = detect_compute_config(settings, env)[1]
    /\ compute_type' = detect_compute_config(settings, env)[2]
    /\ model_ev' = [op |-> "init", request |-> "", raised |-> FALSE]
    /\ UNCHANGED <<settings, env, model, model_name, is_loaded, constructed, peak, loads>>
    /\ UNCHANGED outside_model

\* a caller invokes load_model(request)
ModelLoad ==
    /\ model_pc = "ready"
    /\ loads < MaxLoads
    /\ \E request \in Requests, outcome \in LoadOutcomes :
         /\ load_model(request, outcome)
         /\ model_ev' = [op |-> "load", request |-> request,
                          raised |-> /\ outcome = "raises"
                                     /\ ~(is_loaded /\ model_name = RequestedName(request))]
    /\ loads' = loads + 1
    /\ UNCHANGED <<settings, env, model_pc, device, compute_type>>
    /\ UNCHANGED outside_model

\* a caller invokes unload_model()
ModelUnload ==
    /\ model_pc = "ready"
    /\ loads < MaxLoads
    /\ SetEngine(unload_model(EngineState))
    /\ model_ev' = [op |-> "unload", request |-> "", raised |-> FALSE]
    /\ loads' = loads + 1
    /\ UNCHANGED <<settings, env, model_pc, device, compute_type, constructed, peak>>
    /\ UNCHANGED outside_model

\* before TranscriptionEngine.__init__ resolved the device
ModelFields ==
    /\ model_pc = "new"
    /\ device = ""
    /\ compute_type = ""
    /\ model = NoModel
    /\ model_name = ""
    /\ is_loaded = FALSE
    /\ constructed = 0
    /\ peak = 0
    /\ model_ev = [op |-> "none", request |-> "", raised |-> FALSE]
    /\ loads = 0

\* no transcription engine in play
ModelUnused ==
    /\ settings = DefaultSettings
    /\ env = NoAccelerator
    /\ ModelFields

\* the thread of _preload_model and two transcribe threads
Callers == {"t1", "t2"}
Threads == {"preload"} \cup Callers

\* no thread inside the transcription engine
WorkersUnused ==
    /\ wpc = [t \in Threads |-> "idle"]
    /\ wmodel = [t \in Callers |-> NoModel]

\* ---------------------------------------------------------- HistoryManager
\* id=None of an entry that was not stored; AUTOINCREMENT ids start at 1
NoId == 0
\* get_entry finding no row
NoEntry == [id |-> NoId, text |-> "", ts |-> 0]
NoCall ==
    [op |-> "none", arg |-> 0, text |-> "", entry |-> NoEntry, ok |-> FALSE, n |-> 0,
     offset |-> 0, list |-> <<>>]

\* an initialized manager with history enabled on an empty database
HistoryUnused ==
    /\ enabled = TRUE
    /\ rows = {}
    /\ last_id = 0
    /\ db_now = 0
    /\ h_res = NoCall
    /\ h_ops = 0

\* ------------------------------------------------------------------ Config
\* two of the seven settings sections, which load and save treat alike
ConfigSections == {"audio", "hotkey"}
Fields ==
    [audio |-> {"chunk_size", "input_device"},
     hotkey |-> {"activation_key", "hold_to_record"}]

\* Python values and JSON values, tagged with their type
PyValue(type, v) == [py |-> type, v |-> v]
JsValue(type, v) == [js |-> type, v |-> v]

\* the dataclass defaults: AudioSettings(), HotkeySettings()
DefaultConfig ==
    [audio |-> [chunk_size |-> PyValue("int", "1600"),
                input_device |-> PyValue("none", "None")],
     hotkey |-> [activation_key |-> PyValue("str", "ctrl+shift"),
                 hold_to_record |-> PyValue("bool", "True")]]

\* json.dump of one value: a tuple is written as an array, like a list
json_dump(value) ==
    CASE value.py = "str" -> JsValue("string", value.v)
      [] value.py = "int" -> JsValue("number", value.v)
      [] value.py = "bool" -> JsValue("boolean", IF value.v = "True" THEN "true" ELSE "false")
      [] value.py = "none" -> JsValue("null", "null")
      [] OTHER -> JsValue("array", value.v)

\* json.load of one value: an array is read as a list
json_load(json) ==
    CASE json.js = "string" -> PyValue("str", json.v)
      [] json.js = "number" -> PyValue("int", json.v)
      [] json.js = "boolean" -> PyValue("bool", IF json.v = "true" THEN "True" ELSE "False")
      [] json.js = "null" -> PyValue("none", "None")
      [] OTHER -> PyValue("list", json.v)

\* a JSON object with the members m; any other JSON value has none
NoMembers == [k \in {} |-> JsValue("null", "null")]
JsObject(m) == [js |-> "object", members |-> m]
JsOther(type) == [js |-> type, members |-> NoMembers]

\* what config_path holds: nothing, bytes that are no UTF-8 text, text that
\* is no JSON, or a JSON document
NoFile == [kind |-> "missing", doc |-> JsOther("none")]
BytesFile == [kind |-> "bytes", doc |-> JsOther("none")]
TextFile == [kind |-> "text", doc |-> JsOther("none")]
JsonFile(doc) == [kind |-> "json", doc |-> doc]

\* the settings the last call left in the caller's hands, if any
NoConfig == [loaded |-> FALSE, values |-> DefaultConfig]
NoConfigCall == [op |-> "none", raised |-> ""]

\* no configuration in play
ConfigUnused ==
    /\ cfg_file = NoFile
    /\ cfg = NoConfig
    /\ cfg_saved = NoConfig
    /\ cfg_res = NoConfigCall
    /\ cfg_ops = 0

\* ------------------------------------------------------------------ Init
\* LocalWhisperApp and AudioEngine after construction
AppInit ==
    /\ is_recording = FALSE
    /\ is_processing = FALSE
    /\ event_queue = <<>>
    /\ hook_pc = "idle"
    /\ toggles = 0
    /\ threads = {}
    /\ engine_is_recording = FALSE
    /\ stream = "none"
    /\ audio_buffer = <<>>
    /\ session = 0
    /\ appended = <<>>
    /\ chunk_size \in ChunkSizes
    /\ tray_state = "IDLE"
    /\ tray_error = <<>>
    /\ tray_timers = 0
    /\ overlay_shown = FALSE
    /\ overlay_state = "listening"
    /\ fading = FALSE
    /\ hide_timers = 0
    /\ inject_timers = <<>>
    /\ injected = <<>>
    /\ history = <<>>
    /\ last_audio = -1
    /\ toggles_at_error = -1
    /\ faults = 0
    /\ alive = TRUE

\* no direct call made on the engine
EngineCallsUnused ==
    /\ returned = <<>>
    /\ eng_ev = "none"
    /\ eng_calls = 0

Init ==
    /\ AppInit
    /\ ComboUnused
    /\ ListenerConstructed
    /\ EngineCallsUnused
    /\ ModelUnused
    /\ WorkersUnused
    /\ HistoryUnused
    /\ ConfigUnused

\* ----------------------------------------------------------- AudioEngine
\* What opening the input stream can do: succeed, sd.InputStream(...) raises,
\* or stream.start() raises after the stream object was stored.
StartOutcomes == {"ok", "open_raises", "start_raises"}

\* AudioEngine.start_recording raises (only when it gets past the no-op check)
StartRaises(outcome) == ~engine_is_recording /\ outcome # "ok"

\* the missing-guard slip: a start that clears and reopens whatever the flag says
start_recording_unguarded(outcome) ==
    /\ audio_buffer' = <<>>
    /\ appended' = <<>>
    /\ engine_is_recording' = TRUE
    /\ session' = session + 1
    /\ stream' = CASE outcome = "ok" -> "active"
                   [] outcome = "open_raises" -> stream
                   [] OTHER -> "opened"

\* AudioEngine.start_recording with _start_sounddevice_recording
start_recording(outcome) ==
    IF engine_is_recording
    THEN UNCHANGED engvars
    ELSE /\ audio_buffer' = <<>>
         /\ appended' = <<>>
         /\ engine_is_recording' = TRUE
         /\ session' = session + 1
         /\ stream' = CASE outcome = "ok" -> "active"
                        [] outcome = "open_raises" -> stream
                        [] OTHER -> "opened"

\* What AudioEngine.stop_recording can do: return the segment, or raise from
\* stopping/closing a stream it holds.
StopOutcomes == IF engine_is_recording /\ stream # "none" THEN {"ok", "raises"} ELSE {"ok"}

\* the array AudioEngine.stop_recording returns
StoppedAudio == IF engine_is_recording THEN audio_buffer ELSE <<>>

\* the forgotten-reset slip: the segment is returned but the engine keeps
\* capturing into the same buffer
stop_recording_keeps_capturing == UNCHANGED engvars

\* the missing-guard slip: a stop that tears down whatever the flag says
stop_recording_unguarded ==
    /\ engine_is_recording' = FALSE
    /\ stream' = "none"
    /\ audio_buffer' = <<>>
    /\ UNCHANGED <<session, appended>>

\* AudioEngine.stop_recording returning normally
stop_recording ==
    IF ~engine_is_recording
    THEN UNCHANGED engvars
    ELSE /\ engine_is_recording' = FALSE
         /\ stream' = "none"
         /\ audio_buffer' = <<>>
         /\ UNCHANGED <<session, appended>>

\* AudioEngine.stop_recording raising while it stops the stream
stop_recording_raises ==
    /\ engine_is_recording' = FALSE
    /\ stream' = "failed"
    /\ UNCHANGED <<audio_buffer, session, appended>>

\* audio_callback(indata, frames, ...): the engine's part of it
audio_callback(frames) ==
    /\ stream = "active"
    /\ Len(audio_buffer) < MaxChunks
    /\ LET chunk == [sess |-> session, seq |-> Len(appended) + 1, n |-> frames]
       IN  /\ audio_buffer' = Extend(audio_buffer, chunk)
           /\ appended' = Append(appended, chunk)
    /\ UNCHANGED <<engine_is_recording, stream, session>>

\* audio_callback of the input stream, on the audio thread
AudioCallback ==
    /\ alive
    /\ UNCHANGED outside_app
    /\ audio_callback(chunk_size)
    /\ UNCHANGED <<appvars, event_queue, hook_pc, toggles, threads,
                   chunk_size, uivars, sinkvars, last_audio, toggles_at_error, faults, alive>>

\* ------------------------------------------------------- LocalWhisperApp
\* An exception leaves a slot: PyQt reports it and aborts the process unless
\* an exception hook is installed.
Escapes(raised) ==
    /\ faults' = (IF raised THEN faults + 1 ELSE faults)
    /\ alive' \in (IF raised THEN BOOLEAN ELSE {alive})

\* the off-by-one slip: a segment of exactly 1600 samples counts as too short
TooShort_inclusive(audio) == BufLen(audio) <= MinSamples

\* `audio is None or len(audio) < 1600`
TooShort(audio) == BufLen(audio) < MinSamples

\* LocalWhisperApp._on_recording_started; q is the event queue it leaves
on_recording_started(q, outcome) ==
    /\ event_queue' = q
    /\ is_recording' = TRUE
    /\ overlay_shown' = TRUE
    /\ overlay_state' = "listening"
    /\ fading' = FALSE
    /\ tray_state' = "RECORDING"
    /\ start_recording(outcome)
    /\ Escapes(StartRaises(outcome))
    /\ UNCHANGED <<is_processing, threads, tray_error, tray_timers, hide_timers,
                   sinkvars, last_audio, toggles_at_error>>

\* LocalWhisperApp._on_recording_stopped; q is the event queue it leaves
on_recording_stopped(q, outcome) ==
    /\ event_queue' = q
    /\ IF ~is_recording
       THEN UNCHANGED <<appvars, threads, engvars, uivars, sinkvars, last_audio, toggles_at_error, faults, alive>>
       ELSE /\ is_recording' = FALSE
            /\ UNCHANGED <<tray_error, tray_timers, hide_timers, overlay_shown, sinkvars,
                           toggles_at_error>>
            /\ overlay_state' = "processing"
            /\ IF outcome = "raises"
               THEN /\ is_processing' = TRUE
                    /\ tray_state' = "PROCESSING"
                    /\ stop_recording_raises
                    /\ Escapes(TRUE)
                    /\ UNCHANGED <<threads, fading, last_audio>>
               ELSE /\ stop_recording
                    /\ Escapes(FALSE)
                    /\ last_audio' = BufLen(StoppedAudio)
                    /\ IF TooShort(StoppedAudio)
                       THEN /\ is_processing' = FALSE
                            /\ fading' = TRUE
                            /\ tray_state' = "IDLE"
                            /\ UNCHANGED threads
                       ELSE /\ is_processing' = TRUE
                            /\ tray_state' = "PROCESSING"
                            /\ threads' = threads \cup {[audio |-> StoppedAudio]}
                            /\ UNCHANGED fading

\* QTimer.singleShot(150, lambda: self._text_injector.inject_text(text)): the
\* pending injections afterwards (sess: the session the text came from)
schedule_inject(m) == Append(inject_timers, [text |-> m.text, sess |-> SessOf(m.audio)])

\* the forgotten-entry slip: the handler returns before saving to history
add_entry_skipped(m) == history

\* self._history_manager.add_entry(text=text, duration=len(get_current_audio()) / 16000, ...):
\* the calls received afterwards (sess, audio_len: the session and the length
\* of the segment the text came from)
add_entry(m) ==
    Append(history, [text |-> m.text,
                     duration |-> [num |-> BufLen(audio_buffer), den |-> HistoryRate],
                     sess |-> SessOf(m.audio),
                     audio_len |-> BufLen(m.audio)])

\* LocalWhisperApp._on_transcription_complete for the queued signal m
on_transcription_complete(q, m) ==
    /\ event_queue' = q
    /\ is_processing' = FALSE
    /\ overlay_state' = "success"
    /\ hide_timers' = hide_timers + 1
    /\ tray_state' = "IDLE"
    /\ IF Strip(m.text) = <<>>
       THEN UNCHANGED sinkvars
       ELSE /\ inject_timers' = schedule_inject(m)
            /\ history' = add_entry(m)
            /\ UNCHANGED injected
    /\ UNCHANGED <<is_recording, threads, engvars, tray_error, tray_timers, overlay_shown,
                   fading, last_audio, toggles_at_error, faults, alive>>

\* the copy-paste slip: the error handler saves the message to history as the
\* completion handler saves the text
on_transcription_error_saves(q, m) ==
    /\ event_queue' = q
    /\ is_processing' = FALSE
    /\ overlay_state' = "error"
    /\ hide_timers' = hide_timers + 1
    /\ tray_state' = "ERROR"
    /\ tray_error' = <<"Transcription failed">> \o m.text
    /\ tray_timers' = tray_timers + 1
    /\ toggles_at_error' = toggles
    /\ history' = add_entry(m)
    /\ UNCHANGED <<is_recording, threads, engvars, overlay_shown, fading, inject_timers,
                   injected, last_audio, faults, alive>>

\* LocalWhisperApp._on_transcription_error for the queued signal m
on_transcription_error(q, m) ==
    /\ event_queue' = q
    /\ is_processing' = FALSE
    /\ overlay_state' = "error"
    /\ hide_timers' = hide_timers + 1
    /\ tray_state' = "ERROR"
    /\ tray_error' = <<"Transcription failed">> \o m.text
    /\ tray_timers' = tray_timers + 1
    /\ toggles_at_error' = toggles
    /\ UNCHANGED <<is_recording, threads, engvars, overlay_shown, fading, sinkvars,
                   last_audio, faults, alive>>

\* LocalWhisperApp._toggle_recording on the hook thread, first read:
\* `if self._is_processing: return`
HookToggleBegin ==
    /\ alive
    /\ UNCHANGED outside_app
    /\ hook_pc = "idle"
    /\ toggles < MaxToggles
    /\ toggles' = toggles + 1
    /\ hook_pc' = IF is_processing THEN "idle" ELSE "read_recording"
    /\ UNCHANGED <<appvars, event_queue, threads, engvars, chunk_size, uivars, sinkvars,
                   last_audio, toggles_at_error, faults, alive>>

\* LocalWhisperApp._toggle_recording on the hook thread, second read and emit:
\* the signal is queued for the main thread
HookToggleEmit ==
    /\ alive
    /\ UNCHANGED outside_app
    /\ hook_pc = "read_recording"
    /\ hook_pc' = "idle"
    /\ event_queue' = Append(event_queue,
            Signal(IF is_recording THEN "recording_stopped" ELSE "recording_started",
                   <<>>, <<>>))
    /\ UNCHANGED <<appvars, toggles, threads, engvars, chunk_size, uivars, sinkvars,
                   last_audio, toggles_at_error, faults, alive>>

\* LocalWhisperApp._toggle_recording called by TrayIcon.toggle_recording on the
\* main thread: the emitted signal runs its slot before the call returns
TrayToggle ==
    /\ alive
    /\ UNCHANGED outside_app
    /\ toggles < MaxToggles
    /\ toggles' = toggles + 1
    /\ UNCHANGED <<hook_pc, chunk_size>>
    /\ IF is_processing
       THEN UNCHANGED <<appvars, event_queue, threads, engvars, uivars, sinkvars,
                        last_audio, toggles_at_error, faults, alive>>
       ELSE IF is_recording
            THEN \E o \in StopOutcomes : on_recording_stopped(event_queue, o)
            ELSE \E o \in StartOutcomes : on_recording_started(event_queue, o)

\* the main thread delivers a queued _recording_started
DeliverRecordingStarted ==
    /\ alive
    /\ UNCHANGED outside_app
    /\ event_queue # <<>>
    /\ Head(event_queue).sig = "recording_started"
    /\ \E o \in (IF engine_is_recording THEN {"ok"} ELSE StartOutcomes) :
           on_recording_started(Tail(event_queue), o)
    /\ UNCHANGED <<hook_pc, toggles, chunk_size>>

\* the main thread delivers a queued _recording_stopped
DeliverRecordingStopped ==
    /\ alive
    /\ UNCHANGED outside_app
    /\ event_queue # <<>>
    /\ Head(event_queue).sig = "recording_stopped"
    /\ \E o \in (IF is_recording THEN StopOutcomes ELSE {"ok"}) :
           on_recording_stopped(Tail(event_queue), o)
    /\ UNCHANGED <<hook_pc, toggles, chunk_size>>

\* the main thread delivers a queued _transcription_complete
DeliverTranscriptionComplete ==
    /\ alive
    /\ UNCHANGED outside_app
    /\ event_queue # <<>>
    /\ Head(event_queue).sig = "transcription_complete"
    /\ on_transcription_complete(Tail(event_queue), Head(event_queue))
    /\ UNCHANGED <<hook_pc, toggles, chunk_size>>

\* the main thread delivers a queued _transcription_error
DeliverTranscriptionError ==
    /\ alive
    /\ UNCHANGED outside_app
    /\ event_queue # <<>>
    /\ Head(event_queue).sig = "transcription_error"
    /\ on_transcription_error(Tail(event_queue), Head(event_queue))
    /\ UNCHANGED <<hook_pc, toggles, chunk_size>>

\* --------------------------------------------------- transcribe threads
\* TranscriptionEngine.transcribe returning: the joined segment text, stripped
TranscribeResult(raw) == Strip(raw)

\* TranscriptionEngine.transcribe raising: the message of the wrapped exception
TranscribeError(e) == <<"Transcription failed">> \o e

\* the signal transcribe_thread emits for thread t
transcribe_thread(t, ok, x) ==
    IF ok THEN Signal("transcription_complete", TranscribeResult(x), t.audio)
    ELSE Signal("transcription_error", TranscribeError(x), t.audio)

\* a transcribe thread gets its result and emits _transcription_complete
TranscribeReturns ==
    /\ alive
    /\ UNCHANGED outside_app
    /\ \E t \in threads : \E raw \in RawTexts :
          /\ threads' = threads \ {t}
          /\ event_queue' = Append(event_queue, transcribe_thread(t, TRUE, raw))
    /\ UNCHANGED <<appvars, hook_pc, toggles, engvars, chunk_size, uivars, sinkvars,
                   last_audio, toggles_at_error, faults, alive>>

\* a transcribe thread catches an exception and emits _transcription_error
TranscribeRaises ==
    /\ alive
    /\ UNCHANGED outside_app
    /\ \E t \in threads : \E e \in InferenceErrors :
          /\ threads' = threads \ {t}
          /\ event_queue' = Append(event_queue, transcribe_thread(t, FALSE, e))
    /\ UNCHANGED <<appvars, hook_pc, toggles, engvars, chunk_size, uivars, sinkvars,
                   last_audio, toggles_at_error, faults, alive>>

\* ---------------------------------------------------------------- timers
\* QTimer.singleShot(150, lambda: self._text_injector.inject_text(text))
InjectTimerFires ==
    /\ alive
    /\ UNCHANGED outside_app
    /\ inject_timers # <<>>
    /\ injected' = Append(injected, Head(inject_timers))
    /\ inject_timers' = Tail(inject_timers)
    /\ UNCHANGED <<appvars, event_queue, hook_pc, toggles, threads, engvars, chunk_size,
                   uivars, history, last_audio, toggles_at_error, faults, alive>>

\* QTimer.singleShot(3000, lambda: self._tray_icon.set_state(TrayState.IDLE))
TrayResetTimerFires ==
    /\ alive
    /\ UNCHANGED outside_app
    /\ tray_timers > 0
    /\ tray_timers' = tray_timers - 1
    /\ tray_state' = "IDLE"
    /\ UNCHANGED <<appvars, event_queue, hook_pc, toggles, threads, engvars, chunk_size,
                   tray_error, overlay_shown, overlay_state, fading, hide_timers,
                   sinkvars, last_audio, toggles_at_error, faults, alive>>

\* QTimer.singleShot(delay_ms, self._do_hide): the fade-out starts
OverlayHideTimerFires ==
    /\ alive
    /\ UNCHANGED outside_app
    /\ hide_timers > 0
    /\ hide_timers' = hide_timers - 1
    /\ fading' = TRUE
    /\ UNCHANGED <<appvars, event_queue, hook_pc, toggles, threads, engvars, chunk_size,
                   tray_state, tray_error, tray_timers, overlay_shown, overlay_state,
                   sinkvars, last_audio, toggles_at_error, faults, alive>>

\* _fade_out_animation.finished -> hide
FadeOutFinished ==
    /\ alive
    /\ UNCHANGED outside_app
    /\ fading
    /\ fading' = FALSE
    /\ overlay_shown' = FALSE
    /\ UNCHANGED <<appvars, event_queue, hook_pc, toggles, threads, engvars, chunk_size,
                   tray_state, tray_error, tray_timers, overlay_state, hide_timers,
                   sinkvars, last_audio, toggles_at_error, faults, alive>>

\* ------------------------------------------------------------------ Spec
Next ==
    \/ HookToggleBegin
    \/ HookToggleEmit
    \/ TrayToggle
    \/ DeliverRecordingStarted
    \/ DeliverRecordingStopped
    \/ DeliverTranscriptionComplete
    \/ DeliverTranscriptionError
    \/ AudioCallback
    \/ TranscribeReturns
    \/ TranscribeRaises
    \/ InjectTimerFires
    \/ TrayResetTimerFires
    \/ OverlayHideTimerFires
    \/ FadeOutFinished

Spec == Init /\ [][Next]_vars

\* The Qt event loop runs the slot of every queued signal, and a transcribe
\* thread's inference returns or raises; toggles, audio and timers may or may
\* not come.
FairSpec ==
    /\ Init
    /\ [][Next]_vars
    /\ WF_vars(DeliverRecordingStarted)
    /\ WF_vars(DeliverRecordingStopped)
    /\ WF_vars(DeliverTranscriptionComplete)
    /\ WF_vars(DeliverTranscriptionError)
    /\ WF_vars(TranscribeReturns \/ TranscribeRaises)

\* ------------------------------------------------- parsing a hotkey string
\* HotkeyCombo.from_string(hotkey_str)
ParseCombo ==
    /\ combo_pc = "input"
    /\ parsed' = from_string(hotkey_str, platform)
    /\ combo_pc' = IF parsed'.ok THEN "parsed" ELSE "rejected"
    /\ UNCHANGED <<hotkey_str, platform, printed, reparsed, outside_combo>>

\* combo.to_string()
PrintCombo ==
    /\ combo_pc = "parsed"
    /\ printed' = to_string(parsed)
    /\ combo_pc' = "printed"
    /\ UNCHANGED <<hotkey_str, platform, parsed, reparsed, outside_combo>>

\* HotkeyCombo.from_string(combo.to_string())
ReparseCombo ==
    /\ combo_pc = "printed"
    /\ reparsed' = from_string(printed, platform)
    /\ combo_pc' = "done"
    /\ UNCHANGED <<hotkey_str, platform, parsed, printed, outside_combo>>

ComboInit ==
    /\ AppInit
    /\ chunk_size = 1600
    /\ hotkey_str \in ComboStrings
    /\ platform \in Platforms
    /\ combo_pc = "input"
    /\ parsed = NoCombo
    /\ printed = <<>>
    /\ reparsed = NoCombo
    /\ ListenerConstructed
    /\ EngineCallsUnused
    /\ ModelUnused
    /\ WorkersUnused
    /\ HistoryUnused
    /\ ConfigUnused

ComboNext ==
    \/ ParseCombo
    \/ PrintCombo
    \/ ReparseCombo

ComboSpec == ComboInit /\ [][ComboNext]_vars

\* ------------------------------------------------------ the key listener
\* HotkeyManager.start()
ListenerStart ==
    /\ ~is_running
    /\ SetManager(start(Manager))
    /\ ev' = [kind |-> "start", key |-> "", raised |-> FALSE]
    /\ UNCHANGED <<hotkey, activation_time, on_press_calls, on_release_calls,
                   last_press_time, now, held, nevents, outside_listener>>

\* key k goes down (or repeats while it is down); a hooked listener runs
\* _handle_press on the listener thread
KeyPress ==
    /\ nevents < MaxEvents
    /\ \E k \in PhysKeys :
          /\ held' = held \cup {k}
          /\ IF listener = "hooked"
             THEN /\ handle_press(KeyObject(k, held))
                  /\ \E cb \in CallbackOutcomes :
                        ev' = [kind |-> "press", key |-> k,
                               raised |-> /\ cb = "raises"
                                          /\ on_press_calls' # on_press_calls]
             ELSE /\ ev' = [kind |-> "unheard", key |-> k, raised |-> FALSE]
                  /\ UNCHANGED <<pressed_modifiers, hotkey_active, activation_time,
                                 on_press_calls, on_release_calls, last_press_time>>
    /\ nevents' = nevents + 1
    /\ UNCHANGED <<hotkey, listener, is_running, now, outside_listener>>

\* key k goes up; a hooked listener runs _handle_release on the listener thread
KeyRelease ==
    /\ nevents < MaxEvents
    /\ \E k \in held :
          /\ held' = held \ {k}
          /\ IF listener = "hooked"
             THEN /\ handle_release(KeyObject(k, held))
                  /\ \E cb \in CallbackOutcomes :
                        ev' = [kind |-> "release", key |-> k,
                               raised |-> /\ cb = "raises"
                                          /\ on_release_calls' # on_release_calls]
             ELSE /\ ev' = [kind |-> "unheard", key |-> k, raised |-> FALSE]
                  /\ UNCHANGED <<pressed_modifiers, hotkey_active, activation_time,
                                 on_press_calls, on_release_calls, last_press_time>>
    /\ nevents' = nevents + 1
    /\ UNCHANGED <<hotkey, listener, is_running, now, outside_listener>>

\* time passes
ClockAdvances ==
    /\ \E d \in ClockSteps :
          /\ now + d <= MaxClock
          /\ now' = now + d
    /\ UNCHANGED <<hotkey, listener, is_running, pressed_modifiers, hotkey_active,
                   activation_time, on_press_calls, on_release_calls, last_press_time,
                   held, ev, nevents, outside_listener>>

\* LocalWhisperApp._on_hotkey_changed: set_hotkey(new_hotkey) on the main thread
SetHotkey ==
    /\ nevents < MaxEvents
    /\ \E str \in HotkeyStrings :
          /\ set_hotkey(str)
          /\ ev' = [kind |-> "set_hotkey", key |-> "",
                    raised |-> ~from_string(str, platform).ok]
    /\ nevents' = nevents + 1
    /\ UNCHANGED <<activation_time, on_press_calls, on_release_calls, last_press_time,
                   now, held, outside_listener>>

ListenerInit ==
    /\ AppInit
    /\ chunk_size = 1600
    /\ ComboUnused
    /\ ListenerConstructed
    /\ EngineCallsUnused
    /\ ModelUnused
    /\ WorkersUnused
    /\ HistoryUnused
    /\ ConfigUnused

ListenerNext ==
    \/ ListenerStart
    \/ KeyPress
    \/ KeyRelease
    \/ ClockAdvances
    \/ SetHotkey

ListenerSpec == ListenerInit /\ [][ListenerNext]_vars

\* ------------------------------------------- an AudioEngine called directly
\* start_recording(), stop_recording() and the stream's callback in any order,
\* as a caller of the engine's public interface can produce them.

\* frames one delivery adds; the large one stands for a run of consecutive
\* callbacks, so that two deliveries exceed the 30 s the deque holds
FrameCounts == {1600, 300000}

\* a caller invokes AudioEngine.start_recording()
EngineStart ==
    /\ eng_calls < MaxCalls
    /\ \E outcome \in StartOutcomes :
         /\ start_recording(outcome)
         /\ eng_ev' = IF engine_is_recording THEN "start_noop"
                       ELSE IF outcome = "ok" THEN "started" ELSE "start_raised"
    /\ eng_calls' = eng_calls + 1
    /\ UNCHANGED <<returned, outside_engine>>

\* a caller invokes AudioEngine.stop_recording()
EngineStop ==
    /\ eng_calls < MaxCalls
    /\ \E outcome \in StopOutcomes :
         IF outcome = "ok"
         THEN /\ returned' = StoppedAudio
              /\ stop_recording
              /\ eng_ev' = IF engine_is_recording THEN "stopped" ELSE "stop_noop"
         ELSE /\ stop_recording_raises
              /\ eng_ev' = "stop_raised"
              /\ UNCHANGED returned
    /\ eng_calls' = eng_calls + 1
    /\ UNCHANGED outside_engine

\* the audio thread delivers frames to the open stream's callback
EngineAudio ==
    /\ \E frames \in FrameCounts : audio_callback(frames)
    /\ eng_ev' = "delivered"
    /\ UNCHANGED <<returned, eng_calls, outside_engine>>

EngineInit ==
    /\ AppInit
    /\ chunk_size = 1600
    /\ ComboUnused
    /\ ListenerConstructed
    /\ EngineCallsUnused
    /\ ModelUnused
    /\ WorkersUnused
    /\ HistoryUnused
    /\ ConfigUnused

EngineNext ==
    \/ EngineStart
    \/ EngineStop
    \/ EngineAudio

EngineSpec == EngineInit /\ [][EngineNext]_vars

\* ------------------------------ a TranscriptionEngine called one call at a time
ModelInit ==
    /\ AppInit
    /\ chunk_size = 1600
    /\ ComboUnused
    /\ ListenerConstructed
    /\ EngineCallsUnused
    /\ settings \in Settings
    /\ env \in Environments
    /\ ModelFields
    /\ WorkersUnused
    /\ HistoryUnused
    /\ ConfigUnused

ModelNext ==
    \/ ModelConstruct
    \/ ModelLoad
    \/ ModelUnload

ModelSpec == ModelInit /\ [][ModelNext]_vars

\* ------------------------------ threads inside one TranscriptionEngine
\* The preload thread calls load_model(); each transcribe thread calls
\* transcribe(audio), which loads the model first when none is loaded.  The
\* engine takes no lock, so the threads' steps interleave freely.

\* a thread enters load_model() (the preload thread) or transcribe() (the
\* others): the _is_loaded checks, and the unload of a different model
EngineCall(t) ==
    /\ wpc[t] = "idle"
    /\ LET name == RequestedName("")
           m == IF is_loaded THEN unload_model(EngineState) ELSE EngineState
       IN  IF is_loaded /\ (t # "preload" \/ model_name = name)
           THEN /\ wpc' = [wpc EXCEPT ![t] = IF t = "preload" THEN "done" ELSE "ready"]
                /\ UNCHANGED <<model, model_name, is_loaded>>
           ELSE /\ wpc' = [wpc EXCEPT ![t] = "constructing"]
                /\ SetEngine(m)
    /\ UNCHANGED <<wmodel, constructed, peak, outside_workers>>

\* WhisperModel(...) returns in load_model and the three fields are assigned
ConstructReturns(t) ==
    /\ wpc[t] = "constructing"
    /\ constructed < MaxLoads
    /\ SetEngine([model |-> WhisperModel(RequestedName("")),
                   model_name |-> RequestedName(""), is_loaded |-> TRUE])
    /\ constructed' = constructed + 1
    /\ peak' = IF HeldWith(EngineState) > peak THEN HeldWith(EngineState) ELSE peak
    /\ wpc' = [wpc EXCEPT ![t] = IF t = "preload" THEN "done" ELSE "ready"]
    /\ UNCHANGED <<wmodel, outside_workers>>

\* WhisperModel(...) raises: load_model raises TranscriptionEngineError, which
\* the preload thread prints and transcribe() passes on
ConstructRaises(t) ==
    /\ wpc[t] = "constructing"
    /\ wpc' = [wpc EXCEPT ![t] = IF t = "preload" THEN "done" ELSE "raised"]
    /\ UNCHANGED <<model, model_name, is_loaded, constructed, peak, wmodel, outside_workers>>

\* segments, info = self._model.transcribe(audio, ...)
InferenceBegins(t) ==
    /\ wpc[t] = "ready"
    /\ IF model = NoModel
       THEN /\ wpc' = [wpc EXCEPT ![t] = "raised"]
            /\ UNCHANGED wmodel
       ELSE /\ wpc' = [wpc EXCEPT ![t] = "infer"]
            /\ wmodel' = [wmodel EXCEPT ![t] = model]
    /\ UNCHANGED <<model, model_name, is_loaded, constructed, peak, outside_workers>>

\* the segments are consumed and transcribe() returns, or the inference raises
InferenceEnds(t) ==
    /\ wpc[t] = "infer"
    /\ \E result \in {"done", "raised"} : wpc' = [wpc EXCEPT ![t] = result]
    /\ wmodel' = [wmodel EXCEPT ![t] = NoModel]
    /\ UNCHANGED <<model, model_name, is_loaded, constructed, peak, outside_workers>>

WorkersInit ==
    /\ AppInit
    /\ chunk_size = 1600
    /\ ComboUnused
    /\ ListenerConstructed
    /\ EngineCallsUnused
    /\ settings = DefaultSettings
    /\ env \in {NoAccelerator, [NoAccelerator EXCEPT !.torch = TRUE, !.cuda = TRUE]}
    /\ model_pc = "ready"
    /\ device = detect_compute_config(settings, env)[1]
    /\ compute_type = detect_compute_config(settings, env)[2]
    /\ model = NoModel
    /\ model_name = ""
    /\ is_loaded = FALSE
    /\ constructed = 0
    /\ peak = 0
    /\ model_ev = [op |-> "init", request |-> "", raised |-> FALSE]
    /\ loads = 0
    /\ WorkersUnused
    /\ HistoryUnused
    /\ ConfigUnused

WorkersNext ==
    \/ \E t \in Threads : EngineCall(t)
    \/ \E t \in Threads : ConstructReturns(t)
    \/ \E t \in Threads : ConstructRaises(t)
    \/ \E t \in Callers : InferenceBegins(t)
    \/ \E t \in Callers : InferenceEnds(t)

WorkersSpec == WorkersInit /\ [][WorkersNext]_vars

\* ------------------------------------- a HistoryManager called directly
\* The manager is initialized right after construction (app.py:95-96), on a
\* database that may hold rows of earlier runs.

Texts == {"a", "b"}

\* add_entry's timestamp argument: None, or an explicit datetime of the past
NoTimestamp == -1
Timestamps == {NoTimestamp, 0}

\* ts = timestamp or datetime.now()
TimestampOf(timestamp) == IF timestamp = NoTimestamp THEN db_now ELSE timestamp

\* the HistoryEntry add_entry returns
AddedEntry(text, timestamp) ==
    [id |-> IF enabled THEN last_id + 1 ELSE NoId, text |-> text, ts |-> TimestampOf(timestamp)]

\* the missing-check slip: add_entry inserts whatever settings.enabled says
history_add_entry_always_stores(text, timestamp) ==
    /\ rows' = rows \cup {[id |-> last_id + 1, text |-> text, ts |-> TimestampOf(timestamp)]}
    /\ last_id' = last_id + 1

\* HistoryManager.add_entry: INSERT INTO history ...; entry_id = cursor.lastrowid
history_add_entry(text, timestamp) ==
    IF ~enabled
    THEN UNCHANGED <<rows, last_id>>
    ELSE /\ rows' = rows \cup {AddedEntry(text, timestamp)}
         /\ last_id' = last_id + 1

\* SELECT * FROM history WHERE id = ?; fetchone() and from_row, or None
RowWithId(rs, id) ==
    IF \E r \in rs : r.id = id THEN CHOOSE r \in rs : r.id = id ELSE NoEntry

\* HistoryManager.get_entry
get_entry(id) == RowWithId(rows, id)

\* cursor.rowcount > 0 of DELETE FROM history WHERE id = ?
Deleted(id) == Cardinality({r \in rows : r.id = id}) > 0

\* the wrong-comparison slip: DELETE ... WHERE id <= ?
delete_entry_upto(id) ==
    /\ rows' = {r \in rows : r.id > id}
    /\ UNCHANGED last_id

\* HistoryManager.delete_entry
delete_entry(id) ==
    /\ rows' = {r \in rows : r.id # id}
    /\ UNCHANGED last_id

\* HistoryManager.clear_all: DELETE FROM history (the id sequence is kept)
clear_all ==
    /\ rows' = {}
    /\ UNCHANGED last_id

\* row a comes before row b in ORDER BY timestamp DESC; the query is answered
\* by a backward scan of idx_history_timestamp, whose entries are (timestamp,
\* rowid), so of two rows with one timestamp the later inserted comes first
Before(a, b) == a.ts > b.ts \/ (a.ts = b.ts /\ a.id > b.id)

\* the rows in the order of the scan
RECURSIVE Ordered(_)
Ordered(rs) ==
    IF rs = {} THEN <<>>
    ELSE LET first == CHOOSE r \in rs : \A q \in rs \ {r} : Before(r, q)
         IN  <<first>> \o Ordered(rs \ {first})

\* LIMIT ? OFFSET ?: a negative LIMIT is no limit, a negative OFFSET is 0
LimitOffset(seq, limit, offset) ==
    LET from == IF offset < 0 THEN 0 ELSE offset
        upto == IF limit < 0 \/ from + limit > Len(seq) THEN Len(seq) ELSE from + limit
    IN  SubSeq(seq, from + 1, upto)

\* the wrong-direction slip: ORDER BY timestamp ASC
get_recent_oldest_first(limit, offset) ==
    LET newest == Ordered(rows)
    IN  LimitOffset([i \in 1..Len(newest) |-> newest[Len(newest) + 1 - i]], limit, offset)

\* HistoryManager.get_recent
get_recent(limit, offset) == LimitOffset(Ordered(rows), limit, offset)

\* the limits and offsets get_recent is called with
Limits == 0..2
Offsets == 0..2

\* ids a caller asks for: every id handed out so far and one never handed out
IdArgs == 1..(last_id + 1)

\* a caller invokes add_entry(text, ...); the clock may have moved on afterwards
HistoryAdd ==
    /\ h_ops < MaxOps
    /\ \E text \in Texts, timestamp \in Timestamps :
         /\ history_add_entry(text, timestamp)
         /\ h_res' = [NoCall EXCEPT !.op = "add", !.text = text,
                                     !.entry = AddedEntry(text, timestamp)]
    /\ db_now' \in {db_now, db_now + 1}
    /\ h_ops' = h_ops + 1
    /\ UNCHANGED <<enabled, outside_history>>

\* a caller invokes get_entry(id)
HistoryGet ==
    /\ h_ops < MaxOps
    /\ \E id \in IdArgs :
         h_res' = [NoCall EXCEPT !.op = "get", !.arg = id, !.entry = get_entry(id)]
    /\ h_ops' = h_ops + 1
    /\ UNCHANGED <<enabled, rows, last_id, db_now, outside_history>>

\* a caller invokes get_recent(limit, offset)
HistoryRecent ==
    /\ h_ops < MaxOps
    /\ \E limit \in Limits, offset \in Offsets :
         h_res' = [NoCall EXCEPT !.op = "recent", !.arg = limit, !.offset = offset,
                                 !.list = get_recent(limit, offset)]
    /\ h_ops' = h_ops + 1
    /\ UNCHANGED <<enabled, rows, last_id, db_now, outside_history>>

\* a caller invokes delete_entry(id)
HistoryDelete ==
    /\ h_ops < MaxOps
    /\ \E id \in IdArgs :
         /\ delete_entry(id)
         /\ h_res' = [NoCall EXCEPT !.op = "delete", !.arg = id, !.ok = Deleted(id)]
    /\ h_ops' = h_ops + 1
    /\ UNCHANGED <<enabled, db_now, outside_history>>

\* a caller invokes clear_all()
HistoryClear ==
    /\ h_ops < MaxOps
    /\ clear_all
    /\ h_res' = [NoCall EXCEPT !.op = "clear", !.n = Cardinality(rows)]
    /\ h_ops' = h_ops + 1
    /\ UNCHANGED <<enabled, db_now, outside_history>>

\* what the database holds when the manager is constructed: nothing, one row
\* of an earlier run, or nothing after a row of an earlier run was deleted
EarlierRuns ==
    { [rows |-> {}, last_id |-> 0],
      [rows |-> {[id |-> 1, text |-> "a", ts |-> 0]}, last_id |-> 1],
      [rows |-> {}, last_id |-> 1] }

HistoryInit ==
    /\ AppInit
    /\ chunk_size = 1600
    /\ ComboUnused
    /\ ListenerConstructed
    /\ EngineCallsUnused
    /\ ModelUnused
    /\ WorkersUnused
    /\ enabled \in BOOLEAN
    /\ \E db \in EarlierRuns : rows = db.rows /\ last_id = db.last_id
    /\ db_now = 1
    /\ h_res = NoCall
    /\ h_ops = 0
    /\ ConfigUnused

HistoryNext ==
    \/ HistoryAdd
    \/ HistoryGet
    \/ HistoryRecent
    \/ HistoryDelete
    \/ HistoryClear

HistorySpec == HistoryInit /\ [][HistoryNext]_vars

\* ------------------------------------------------------------ ConfigSpec
\* XSettings(**data.get("x", {})) raises TypeError: the section is no JSON
\* object, or it has a key that is no field of the dataclass
SectionRejected(doc, sec) ==
    /\ sec \in DOMAIN doc.members
    /\ \/ doc.members[sec].js # "object"
       \/ ~(DOMAIN doc.members[sec].members \subseteq Fields[sec])

\* the settings built from the JSON object doc: the fields the file names,
\* the dataclass default for every other
SettingsFrom(doc) ==
    [sec \in ConfigSections |->
        [f \in Fields[sec] |->
            IF sec \in DOMAIN doc.members /\ f \in DOMAIN doc.members[sec].members
            THEN json_load(doc.members[sec].members[f])
            ELSE DefaultConfig[sec][f]]]

\* Config.load(config_path): what it returns, or the exception it lets out;
\* only JSONDecodeError, TypeError and KeyError are caught
config_load(file) ==
    IF file.kind = "missing"
    THEN [raised |-> "", values |-> DefaultConfig]
    ELSE IF file.kind = "bytes"
    THEN [raised |-> "UnicodeDecodeError", values |-> DefaultConfig]
    ELSE IF file.kind = "text"
    THEN [raised |-> "", values |-> DefaultConfig]
    ELSE IF file.doc.js # "object"
    THEN [raised |-> "AttributeError", values |-> DefaultConfig]
    ELSE IF \E sec \in ConfigSections : SectionRejected(file.doc, sec)
    THEN [raised |-> "", values |-> DefaultConfig]
    ELSE [raised |-> "", values |-> SettingsFrom(file.doc)]

\* Config.save: asdict of every section, json.dump
config_save(values) ==
    JsonFile(JsObject([sec \in ConfigSections |->
        JsObject([f \in Fields[sec] |-> json_dump(values[sec][f])])]))

\* a section holding only the activation key "alt+s"
HotkeyOnly == JsObject([f \in {"activation_key"} |-> JsValue("string", "alt+s")])

\* what the file may hold when load is first called: nothing, damaged
\* content, JSON that is no object, an empty or partial object, a section
\* with an unknown key, a section that is no object, an unknown section
Files ==
    { NoFile, BytesFile, TextFile,
      JsonFile(JsOther("array")),
      JsonFile(JsOther("null")),
      JsonFile(JsObject(NoMembers)),
      JsonFile(JsObject([s \in {"hotkey"} |-> HotkeyOnly])),
      JsonFile(JsObject([s \in {"hotkey"} |->
          JsObject([f \in {"activation_key", "mode"} |-> JsValue("string", "alt+s")])])),
      JsonFile(JsObject([s \in {"hotkey"} |-> JsOther("number")])),
      JsonFile(JsObject([s \in {"hotkey", "plugins"} |-> HotkeyOnly])) }

\* the values the settings dialog assigns
Assignable ==
    [audio |-> [chunk_size |-> {PyValue("int", "800")},
                input_device |-> {PyValue("str", "mic"), PyValue("none", "None")}],
     hotkey |-> [activation_key |-> {PyValue("str", "alt+s")},
                 hold_to_record |-> {PyValue("bool", "False")}]]

\* config = Config.load(path)
ConfigLoad ==
    /\ cfg_ops < MaxOps
    /\ LET r == config_load(cfg_file)
       IN  /\ cfg' = IF r.raised = "" THEN [loaded |-> TRUE, values |-> r.values] ELSE cfg
           /\ cfg_res' = [op |-> "load", raised |-> r.raised]
    /\ cfg_ops' = cfg_ops + 1
    /\ UNCHANGED <<cfg_file, cfg_saved, outside_config>>

\* config.<section>.<field> = value
ConfigAssign ==
    /\ cfg_ops < MaxOps
    /\ cfg.loaded
    /\ \E sec \in ConfigSections :
         \E f \in Fields[sec] :
            \E value \in Assignable[sec][f] :
               cfg' = [cfg EXCEPT !.values[sec][f] = value]
    /\ cfg_res' = [op |-> "assign", raised |-> ""]
    /\ cfg_ops' = cfg_ops + 1
    /\ UNCHANGED <<cfg_file, cfg_saved, outside_config>>

\* config.save()
ConfigSave ==
    /\ cfg_ops < MaxOps
    /\ cfg.loaded
    /\ cfg_file' = config_save(cfg.values)
    /\ cfg_saved' = cfg
    /\ cfg_res' = [op |-> "save", raised |-> ""]
    /\ cfg_ops' = cfg_ops + 1
    /\ UNCHANGED <<cfg, outside_config>>

\* config.reset_to_defaults(): every section replaced by its default, save()
ConfigReset ==
    /\ cfg_ops < MaxOps
    /\ cfg.loaded
    /\ cfg' = [cfg EXCEPT !.values = DefaultConfig]
    /\ cfg_file' = config_save(DefaultConfig)
    /\ cfg_saved' = cfg'
    /\ cfg_res' = [op |-> "reset", raised |-> ""]
    /\ cfg_ops' = cfg_ops + 1
    /\ UNCHANGED outside_config

ConfigInit ==
    /\ AppInit
    /\ chunk_size = 1600
    /\ ComboUnused
    /\ ListenerConstructed
    /\ EngineCallsUnused
    /\ ModelUnused
    /\ WorkersUnused
    /\ HistoryUnused
    /\ cfg_file \in Files
    /\ cfg = NoConfig
    /\ cfg_saved = NoConfig
    /\ cfg_res = NoConfigCall
    /\ cfg_ops = 0

ConfigNext ==
    \/ ConfigLoad
    \/ ConfigAssign
    \/ ConfigSave
    \/ ConfigReset

ConfigSpec == ConfigInit /\ [][ConfigNext]_vars

\* ---------------------------------------------------------------- claims
\* positions of the event queue holding a signal named name
Queued(name) == {i \in DOMAIN event_queue : event_queue[i].sig = name}

\* transcriptions dispatched whose completion or error signal the main
\* thread has not yet received
InFlight ==
    Cardinality(threads) + Cardinality(Queued("transcription_complete"))
                         + Cardinality(Queued("transcription_error"))

\* the step is the main thread handling the queued signal named name
Handles(name) ==
    /\ event_queue # <<>>
    /\ Head(event_queue).sig = name
    /\ event_queue' = Tail(event_queue)

\* C1: at most one transcription is in flight at any time (no second
\* transcribe thread while an earlier one has not delivered its signal);
\* stated over the states reached with no exception escaping a slot.
C1_AtMostOneInFlight == faults = 0 => InFlight <= 1

\* C2: _is_recording and _is_processing are never both true; stated over the
\* states reached with no exception escaping a slot.
C2_NotRecordingWhileProcessing == faults = 0 => ~(is_recording /\ is_processing)

\* C3: while no transcription is in flight, consecutive toggles of the hook
\* thread are each decided on the state the previous one produced, so two
\* start signals are never pending together.
C3_NeverTwoStarts ==
    (~is_processing /\ InFlight = 0) => Cardinality(Queued("recording_started")) <= 1

\* C4: when the stop handler obtains the segment, a segment under 1600
\* samples starts no transcription and leaves _is_processing false, and a
\* segment of 1600 samples or more starts exactly one transcription of it.
C4_ShortSegmentBypassesInference ==
    [][(is_recording /\ ~is_recording' /\ faults' = faults) =>
          IF BufLen(StoppedAudio) < MinSamples
          THEN threads' = threads /\ ~is_processing' /\ ~is_recording'
          ELSE /\ threads' = threads \cup {[audio |-> StoppedAudio]}
               /\ Cardinality(threads') = Cardinality(threads) + 1
               /\ is_processing']_vars

\* C4 witness: a 3198-sample segment was transcribed and recorded, then a
\* 1599-sample segment was dropped and the orchestrator is idle.
C4_Witness ==
    /\ last_audio = 1599
    /\ ~is_processing /\ ~is_recording /\ InFlight = 0
    /\ \E i \in DOMAIN history : history[i].audio_len >= MinSamples

\* the injections scheduled or made for the segment of session s
InjectionsOf(s) ==
    Cardinality({i \in DOMAIN inject_timers : inject_timers[i].sess = s})
    + Cardinality({i \in DOMAIN injected : injected[i].sess = s})

\* C5: for every recording session the text injector's inject call is
\* scheduled at most once.
C5_InjectAtMostOncePerSession == \A s \in 0..session : InjectionsOf(s) <= 1

\* C5 witness: two sessions have each had their text injected.
C5_Witness == Len(injected) = 2 /\ injected[1].sess # injected[2].sess

\* C6 as claimed: every success handled in Processing adds one history entry
\* and one injection, and the orchestrator is Idle afterwards.
C6_EverySuccessForwarded ==
    [][(Handles("transcription_complete") /\ is_processing /\ ~is_recording) =>
          /\ Len(history') = Len(history) + 1
          /\ Len(inject_timers') = Len(inject_timers) + 1
          /\ ~is_processing' /\ ~is_recording']_vars

\* C6 amended: a success with non-blank text handled in Processing adds
\* exactly one history entry and schedules exactly one injection, both with
\* its text; a success with blank text adds neither; either way the
\* orchestrator is Idle afterwards.
C6_NonBlankSuccessForwarded ==
    [][(Handles("transcription_complete") /\ is_processing /\ ~is_recording) =>
          LET text == Head(event_queue).text
          IN  /\ ~is_processing' /\ ~is_recording' /\ tray_state' = "IDLE"
              /\ injected' = injected
              /\ IF Strip(text) = <<>>
                 THEN history' = history /\ inject_timers' = inject_timers
                 ELSE /\ Len(history') = Len(history) + 1
                      /\ SubSeq(history', 1, Len(history)) = history
                      /\ history'[Len(history')].text = text
                      /\ Len(inject_timers') = Len(inject_timers) + 1
                      /\ SubSeq(inject_timers', 1, Len(inject_timers)) = inject_timers
                      /\ inject_timers'[Len(inject_timers')].text = text]_vars

\* C6 witness: a success was forwarded to history and injected, and the
\* orchestrator is idle.
C6_Witness ==
    /\ ~is_processing /\ ~is_recording
    /\ Len(history) = 1 /\ Len(injected) = 1
    /\ history[1].text = injected[1].text /\ history[1].text # <<>>

\* C7: the duration in a history entry is the length of the segment captured
\* in that session and handed to the worker, in seconds at 16 kHz.
C7_DurationIsSegmentLength ==
    \A i \in DOMAIN history :
        history[i].duration.num * SampleRate = history[i].audio_len * history[i].duration.den

\* C8: handling a transcription error calls neither add_entry nor the text
\* injector.
C8_FailureReachesUiOnly ==
    [][Handles("transcription_error") =>
          /\ history' = history
          /\ inject_timers' = inject_timers
          /\ injected' = injected]_vars

\* C8 witness: an error has been handled and shown, nothing was forwarded.
C8_Witness ==
    /\ tray_state = "ERROR" /\ tray_error # <<>>
    /\ history = <<>> /\ inject_timers = <<>> /\ injected = <<>>

\* C9: once a transcription error has been shown and its 3 s timer has
\* fired, with no toggle submitted in between and no exception escaping a
\* slot, the orchestrator is Idle (so that the next activation starts a
\* recording).
C9_IdleAfterErrorWindow ==
    (faults = 0 /\ toggles_at_error = toggles /\ tray_timers = 0 /\ hook_pc = "idle")
        => (~is_processing /\ ~is_recording /\ tray_state = "IDLE")

\* C10: in a running process _is_processing is never left true with no
\* transcription outcome due to clear it, also after a capture call raised.
C10_ProcessingNeverStuck == (alive /\ is_processing) => InFlight > 0

\* C11: when starting capture fails (the stream cannot be opened or started),
\* the orchestrator is not Recording afterwards and the failure is shown to
\* the user; stated over the steps after which the process is still running.
C11_FailedStartNotRecording ==
    [][(session' = session + 1 /\ faults' = faults + 1 /\ alive') =>
          /\ ~is_recording'
          /\ tray_state' = "ERROR"
          /\ tray_error' # <<>>]_vars

\* C12: for every combo c that from_string gives for a string it accepts,
\* from_string(c.to_string()) equals c (same modifier set, same key), and
\* c.to_string() lists the modifiers in ascending order, then the key.
C12_ComboRoundTrip ==
    combo_pc = "done" =>
        LET parts == Split(printed)
            n == Cardinality(parsed.modifiers)
        IN  /\ reparsed.ok
            /\ reparsed.modifiers = parsed.modifiers
            /\ reparsed.key = parsed.key
            /\ Len(parts) = n + 1
            /\ parts[n + 1] = parsed.key
            /\ {parts[i] : i \in 1..n} = parsed.modifiers
            /\ \A i \in 1..n : \A j \in 1..n : i < j => LexLess(parts[i], parts[j])

\* C12 witness: a string with aliases, capitals and spaces in unsorted order
\* was parsed to two modifiers and a key, printed differently and parsed again.
C12_Witness ==
    /\ combo_pc = "done"
    /\ Cardinality(parsed.modifiers) = 2
    /\ parsed.key = <<"r">>
    /\ printed # hotkey_str
    /\ Len(Split(hotkey_str)) = 3
    /\ reparsed = parsed

\* the "+"-separated parts of the string being parsed that are no modifier name
KeyParts ==
    LET parts == Split(RemoveSpaces(LowerStr(hotkey_str)))
    IN  {i \in DOMAIN parts : parts[i] \notin modifier_names}

\* C19: from_string rejects every malformed string: one with no primary key,
\* one with an unrecognized modifier token next to the key, one with more
\* than one non-modifier part.
C19_MalformedRejected ==
    (combo_pc # "input" /\ Cardinality(KeyParts) # 1) => ~parsed.ok

\* what is printed on key k, for the letter keys
KeyCap(k) == IF k \in {"s", "d"} THEN <<k>> ELSE <<>>

\* the modifier keys of the keyboard
ModifierKeys == {"alt_l", "ctrl_l"}

\* the step is the listener handling a key event of the given kind
HandlesKey(kind) == nevents' = nevents + 1 /\ ev'.kind = kind

\* C13: on_press is invoked only at a press of the combo's primary key at
\* which the tracked modifier set equals the configured one exactly.
C13_ActivatedOnlyOnExactCombo ==
    [][on_press_calls' # on_press_calls =>
          /\ on_press_calls' = on_press_calls + 1
          /\ HandlesKey("press")
          /\ KeyCap(ev'.key) = hotkey.key
          /\ pressed_modifiers = hotkey.modifiers
          /\ pressed_modifiers' = pressed_modifiers]_vars

\* C13 witness: Ctrl+D is configured, Alt and Ctrl are down and D has been
\* pressed without an activation; nothing has been activated so far.
C13_Witness ==
    /\ hotkey.key = <<"d">> /\ hotkey.modifiers = {S_ctrl}
    /\ ev.kind = "press" /\ ev.key = "d"
    /\ pressed_modifiers = {S_alt, S_ctrl}
    /\ on_press_calls = 0 /\ ~hotkey_active

\* C14: while Armed, a release of the primary key less than 150 ms after the
\* activation calls on_release not at all and leaves the listener Armed; one
\* at or after 150 ms calls on_release exactly once and leaves it Idle.
C14_MinimumHoldTime ==
    [][(HandlesKey("release") /\ KeyCap(ev'.key) = hotkey.key /\ hotkey_active) =>
          IF now - activation_time < MinHoldMs
          THEN on_release_calls' = on_release_calls /\ hotkey_active'
          ELSE on_release_calls' = on_release_calls + 1 /\ ~hotkey_active']_vars

\* C14 witness: one activation was ended by a release exactly 150 ms after
\* it, and the release of a second activation came too early and was ignored.
C14_Witness ==
    /\ on_press_calls = 2 /\ on_release_calls = 1
    /\ hotkey_active
    /\ ev.kind = "release" /\ KeyCap(ev.key) = hotkey.key
    /\ activation_time = MinHoldMs

\* C15: Armed implies that the combo's primary key is physically down.
C15_ArmedImpliesKeyHeld ==
    hotkey_active => \E k \in held : KeyCap(k) = hotkey.key

\* C16: a press or release of a modifier key leaves _hotkey_active and
\* _activation_time unchanged and calls neither callback.
C16_ModifierOnlyChangesTrackedSet ==
    [][((HandlesKey("press") \/ HandlesKey("release")) /\ ev'.key \in ModifierKeys) =>
          /\ hotkey_active' = hotkey_active
          /\ activation_time' = activation_time
          /\ on_press_calls' = on_press_calls
          /\ on_release_calls' = on_release_calls
          /\ hotkey' = hotkey /\ is_running' = is_running]_vars

\* C16 witness: Armed for at least 150 ms, the modifier of the combo has
\* just been released and the listener is still Armed.
C16_Witness ==
    /\ hotkey_active
    /\ now - activation_time >= MinHoldMs
    /\ ev.kind = "release" /\ ev.key \in ModifierKeys
    /\ pressed_modifiers # hotkey.modifiers
    /\ on_release_calls = 0

\* C17: a successful set_hotkey on a running listener loses nothing: an
\* activation already signalled stays pending (or its on_release is called),
\* and the modifiers tracked as held are still tracked afterwards.
C17_ReconfigureLosesNothing ==
    [][(HandlesKey("set_hotkey") /\ ~ev'.raised /\ is_running) =>
          /\ hotkey_active => (hotkey_active' \/ on_release_calls' = on_release_calls + 1)
          /\ pressed_modifiers \subseteq pressed_modifiers']_vars

\* C18: a set_hotkey that raises leaves the configured combo, is_running and
\* the hook as they were before the call.
C18_FailedReconfigureChangesNothing ==
    [][(HandlesKey("set_hotkey") /\ ev'.raised) =>
          /\ hotkey' = hotkey
          /\ is_running' = is_running
          /\ listener' = listener]_vars

\* C20: two calls of the callback invoked at combo completion are never less
\* than 300 ms apart; stated over the completions before which every earlier
\* activation was ended by its release.
C20_ToggleDebounced ==
    [][(/\ on_press_calls' = on_press_calls + 1
        /\ last_press_time >= 0
        /\ on_release_calls = on_press_calls) =>
          now - last_press_time >= 300]_vars

\* the step is a direct call of AudioEngine.stop_recording / start_recording
StopCalled ==
    eng_calls' = eng_calls + 1 /\ eng_ev' \in {"stopped", "stop_noop", "stop_raised"}
StartCalled ==
    eng_calls' = eng_calls + 1 /\ eng_ev' \in {"started", "start_noop", "start_raised"}

\* C21: stop_recording called while the engine is not recording returns an
\* empty sample sequence, raises nothing and leaves is_recording, the buffer
\* and the stream as they were, however often it is repeated.
C21_StopWhileIdleIsNoop ==
    [][(StopCalled /\ ~engine_is_recording) =>
          /\ eng_ev' = "stop_noop"
          /\ returned' = <<>>
          /\ UNCHANGED engvars]_vars

\* a stop that found the engine idle with samples of a failed stop still buffered
C21_Witness ==
    /\ eng_ev = "stop_noop"
    /\ ~engine_is_recording
    /\ audio_buffer # <<>>
    /\ stream = "failed"

\* C22: start_recording called while the engine is recording changes nothing:
\* the buffer keeps its samples, no stream is opened and is_recording stays true.
C22_StartWhileRecordingIsNoop ==
    [][(StartCalled /\ engine_is_recording) =>
          /\ eng_ev' = "start_noop"
          /\ engine_is_recording'
          /\ UNCHANGED engvars]_vars

\* a second start during a recording that already holds samples
C22_Witness ==
    /\ eng_ev = "start_noop"
    /\ stream = "active"
    /\ audio_buffer # <<>>

\* C23: the buffer never holds more than 30 s of samples; after a stop that
\* ended a recording the buffer is empty and the returned segment holds only
\* chunks of that recording, and, while what was delivered fits the capacity,
\* exactly the delivered chunks in the order of their delivery.
C23_SegmentIsOrderedSnapshot ==
    /\ BufLen(audio_buffer) <= Capacity
    /\ eng_ev = "stopped" =>
          /\ audio_buffer = <<>>
          /\ \A i \in DOMAIN returned : returned[i].sess = session
          /\ BufLen(appended) <= Capacity => returned = appended

\* the second recording of an engine returned two chunks
C23_Witness ==
    /\ eng_ev = "stopped"
    /\ session = 2
    /\ Len(returned) = 2
    /\ returned = appended

\* C28: after start_recording raised, is_recording is false (so that the next
\* start_recording opens a stream again).
C28_FailedStartLeavesEngineIdle ==
    eng_ev = "start_raised" => ~engine_is_recording

\* the step is a call of TranscriptionEngine.load_model
LoadCalled == loads' = loads + 1 /\ model_ev'.op = "load"

\* C24: a load_model call whose request matches the loaded model constructs
\* nothing and changes nothing; one whose request differs releases the
\* previous model before the new one is constructed (never two held at once)
\* and, unless the construction raises, ends with the new model loaded; and
\* after every step is_loaded is true exactly when a model object and a model
\* name are held.
C24_LoadModelIdempotentAndExclusive ==
    [][/\ is_loaded' <=> (model' # NoModel /\ model_name' # "")
       /\ peak' <= 1
       /\ (LoadCalled /\ is_loaded /\ model_name = RequestedName(model_ev'.request)) =>
             UNCHANGED <<model, model_name, is_loaded, constructed, peak>>
       /\ (LoadCalled /\ is_loaded /\ model_name # RequestedName(model_ev'.request)) =>
             /\ model' # model
             /\ ~model_ev'.raised =>
                   /\ constructed' = constructed + 1
                   /\ model'.id = constructed'
                   /\ model_name' = RequestedName(model_ev'.request)
                   /\ is_loaded']_vars

\* a second model was loaded in place of the first
C24_Witness ==
    /\ model_ev.op = "load"
    /\ ~model_ev.raised
    /\ model_name = "base"
    /\ model.id = 2
    /\ loads = 2

\* a CUDA device torch can use
GpuAvailable == env.torch /\ env.cuda

\* C26: with device and compute_type both "auto" a usable GPU of at least
\* 8 GiB gives (cuda, float16), a usable GPU that is smaller or whose memory
\* query fails gives (cuda, int8), no GPU gives (cpu, int8); a setting other
\* than "auto" is used as it is; and every model is constructed with the
\* pair resolved at construction.
C26_ComputeConfigPolicy ==
    model_pc = "ready" =>
      /\ (settings.device = "auto" /\ settings.compute_type = "auto") =>
            /\ (GpuAvailable /\ env.query_ok /\ env.mib >= 8 * 1024) =>
                  <<device, compute_type>> = <<"cuda", "float16">>
            /\ (GpuAvailable /\ (~env.query_ok \/ env.mib < 8 * 1024)) =>
                  <<device, compute_type>> = <<"cuda", "int8">>
            /\ ~GpuAvailable => <<device, compute_type>> = <<"cpu", "int8">>
      /\ settings.device # "auto" => device = settings.device
      /\ settings.compute_type # "auto" => compute_type = settings.compute_type
      /\ <<device, compute_type>> = detect_compute_config(settings, env)
      /\ model # NoModel => (model.device = device /\ model.compute_type = compute_type)

\* a GPU of exactly 8 GiB resolved to float16, and a model loaded with it
C26_Witness ==
    /\ settings.device = "auto"
    /\ settings.compute_type = "auto"
    /\ GpuAvailable /\ env.query_ok /\ env.mib = 8192
    /\ model.device = "cuda"
    /\ model.compute_type = "float16"

\* C25: two threads never run an inference on the same loaded model at the
\* same time: the second call's inference starts after the first has finished.
C25_OneInferencePerModel ==
    \A a, b \in Callers :
        (a # b /\ wpc[a] = "infer" /\ wpc[b] = "infer") => wmodel[a] # wmodel[b]

\* outcome signals of transcribe threads waiting in the event queue
OutcomesQueued ==
    Cardinality(Queued("transcription_complete")) + Cardinality(Queued("transcription_error"))

\* C27: a transcribe thread ends by emitting exactly one outcome signal,
\* outcome signals come from nowhere else, each is taken from the queue once
\* by its slot, which clears _is_processing; and, the inference returning or
\* raising, whenever _is_processing is true in a running process it is false
\* again later.
C27_OneOutcomeThenIdle ==
    /\ [][/\ Cardinality(threads') < Cardinality(threads) =>
               /\ Cardinality(threads') = Cardinality(threads) - 1
               /\ OutcomesQueued' = OutcomesQueued + 1
          /\ OutcomesQueued' > OutcomesQueued =>
               Cardinality(threads') = Cardinality(threads) - 1
          /\ OutcomesQueued' < OutcomesQueued =>
               /\ OutcomesQueued' = OutcomesQueued - 1
               /\ Handles("transcription_complete") \/ Handles("transcription_error")
               /\ ~is_processing']_vars
    /\ [](is_processing => <>(~is_processing \/ ~alive))

\* the step is a call of the HistoryManager operation op
HistoryCalled(op) == h_ops' = h_ops + 1 /\ h_res'.op = op

\* C29: with history disabled add_entry stores nothing: the stored rows are
\* the same after the call, and the entry returned carries the given text
\* and no id.
C29_DisabledAddStoresNothing ==
    [][(HistoryCalled("add") /\ ~enabled) =>
          /\ rows' = rows
          /\ last_id' = last_id
          /\ h_res'.entry.id = NoId
          /\ h_res'.entry.text = h_res'.text]_vars

\* two add_entry calls on a disabled history left the row of an earlier run alone
C29_Witness ==
    /\ ~enabled
    /\ h_res.op = "add"
    /\ h_ops = 2
    /\ rows = {[id |-> 1, text |-> "a", ts |-> 0]}

\* C30: on an enabled history add_entry returns an id that is not None, that
\* no stored entry carries and that was never handed out, and get_entry of
\* it gives the text added; delete_entry(id) returns True exactly when a row
\* with that id was stored, get_entry(id) is None afterwards and every other
\* row is kept as it was; clear_all returns the number of rows stored and
\* leaves none.
C30_AddGetDeleteClear ==
    [][enabled =>
          /\ HistoryCalled("add") =>
                /\ h_res'.entry.id # NoId
                /\ h_res'.entry.id > last_id
                /\ \A r \in rows : r.id # h_res'.entry.id
                /\ Cardinality({r \in rows' : r.id = h_res'.entry.id}) = 1
                /\ RowWithId(rows', h_res'.entry.id).text = h_res'.text
                /\ rows \subseteq rows'
          /\ HistoryCalled("delete") =>
                /\ h_res'.ok = (\E r \in rows : r.id = h_res'.arg)
                /\ RowWithId(rows', h_res'.arg) = NoEntry
                /\ rows' = {r \in rows : r.id # h_res'.arg}
          /\ HistoryCalled("clear") =>
                /\ h_res'.n = Cardinality(rows)
                /\ rows' = {}]_vars

\* an entry was deleted by its id and another one is still stored
C30_Witness ==
    /\ enabled
    /\ h_res.op = "delete"
    /\ h_res.ok
    /\ Cardinality(rows) = 1
    /\ last_id >= 2

C35_IndicatorsFollowRecording ==
    (faults = 0 /\ is_recording /\ ~is_processing) =>
        (tray_state = "RECORDING" /\ overlay_shown)

\* C36: with the preload thread and the first transcription overlapping (no
\* second transcription in play), at most one WhisperModel is constructed and
\* the inference never starts on a None model.
C36_ModelConstructedOnce ==
    wpc["t2"] = "idle" =>
        /\ constructed <= 1
        /\ wpc["t1"] = "ready" => model # NoModel

\* C37: the default activation key parses into a combo with exactly one
\* primary key, which is what HotkeyManager.__init__ needs in order to return.
C37_DefaultHotkeyParses ==
    (hotkey_str = activation_key /\ combo_pc # "input") =>
        /\ parsed.ok
        /\ parsed.key # <<>>
        /\ Cardinality(KeyParts) = 1

\* C33: while the listener runs, on_press and on_release alternate beginning
\* with on_press: a (re)started listener is Idle, on_press is invoked exactly
\* by the key events that take Idle to Armed and on_release exactly by those
\* that take Armed to Idle, whether or not the callback raises; so a repeated
\* press while Armed and a release while Idle invoke nothing.
C33_CallbacksAlternate ==
    [][/\ ((~is_running \/ ev'.kind = "set_hotkey") /\ is_running') => ~hotkey_active'
       /\ ev'.kind \notin {"press", "release"} =>
             /\ on_press_calls' = on_press_calls
             /\ on_release_calls' = on_release_calls
       /\ (ev'.kind \in {"press", "release"} /\ nevents' # nevents) =>
             /\ on_press_calls' = on_press_calls + (IF ~hotkey_active /\ hotkey_active' THEN 1 ELSE 0)
             /\ on_release_calls' = on_release_calls + (IF hotkey_active /\ ~hotkey_active' THEN 1 ELSE 0)
             /\ on_press_calls' # on_press_calls => ev'.kind = "press"
             /\ on_release_calls' # on_release_calls => ev'.kind = "release"]_vars

C33_Witness ==
    /\ is_running
    /\ on_press_calls = 2
    /\ on_release_calls = 1
    /\ hotkey_active
    /\ ev.kind = "press"
    /\ ev.raised

\* the rows of the database that come before r in timestamp-descending order
RowsBefore(r) == {q \in rows : Before(q, r)}

UnknownSettingKeys(file) ==
    /\ file.kind = "json"
    /\ file.doc.js = "object"
    /\ \E sec \in ConfigSections \cap DOMAIN file.doc.members :
          /\ file.doc.members[sec].js = "object"
          /\ ~(DOMAIN file.doc.members[sec].members \subseteq Fields[sec])

\* C32: Config.load never raises; for a missing file, a file that is no
\* JSON and a file with unknown setting keys the loaded settings are the
\* defaults; and a load after save() gives the settings that were saved.
C32_LoadNeverFails ==
    cfg_res.op = "load" =>
        /\ cfg_res.raised = ""
        /\ cfg.loaded
        /\ (cfg_file.kind \in {"missing", "bytes", "text"} \/ UnknownSettingKeys(cfg_file))
              => cfg.values = DefaultConfig
        /\ cfg_saved.loaded => cfg.values = cfg_saved.values

\* a load that returns: a missing file, a text that is no JSON and unknown
\* setting keys give the defaults, and a saved file the settings saved
LoadNamedCases ==
    (cfg_res.op = "load" /\ cfg_res.raised = "") =>
        /\ cfg.loaded
        /\ (cfg_file.kind \in {"missing", "text"} \/ UnknownSettingKeys(cfg_file))
              => cfg.values = DefaultConfig
        /\ cfg_saved.loaded => cfg.values = cfg_saved.values

====
